---- MODULE Spec2Model ----
(***************************************************************************)
(* Verification model of the database-cinema visualisation engine:         *)
(*   - useFrameRecorder, the deterministic frame exporter                  *)
(*   - VisInteractive, the page that owns playback and the recorder        *)
(*   - AnimationController, the keyframe timeline controller               *)
(*   - AtlasCubeGrid, the instance transform updater (layout morph)        *)
(*   - the /api/save-frame persistence sink                                *)
(*                                                                         *)
(* Time is counted in units of 1/(2*fps) seconds, so that the export frame *)
(* time frame/fps, the hold delays (1.5 s, 0.5 s) and the keyframe times   *)
(* (whole seconds) are all integers.  Continuous values (camera angles,    *)
(* spacing, cube size, progress) are fixed-point numbers with Scale steps  *)
(* per unit; JavaScript computes them in floating point.                   *)
(***************************************************************************)
EXTENDS Integers, Sequences, FiniteSets, TLC

\* ---------------------------------------------------------------- bounds
MaxChains == 2       \* frame-processing chains that may be alive at once
MaxUserActions == 3  \* button clicks (render, test animation, jump) in one behaviour
fps       == 1       \* frames per second handed to useFrameRecorder
Scale     == 1000    \* fixed-point resolution of the continuous values
MaxStep   == 2       \* largest wall-clock advance between two animation frames
MaxLoops  == 2       \* animate() loops that may be pending at once
MaxIdleFrames == 2   \* animation frames in a row that nothing is waiting for
TimelineLen == 3     \* keyframes of a timeline the controller is exercised on
MaxKfSec  == 4       \* largest keyframe time (s) of such a timeline
MaxGridN  == 2       \* largest N of a grid whose buffers are followed element by element
MaxRenders == 2      \* config changes of the grid exercised on its own
MaxCubeN  == 4       \* largest N of a Cube lattice generated cell by cell
MaxImageCount == 150 \* largest number of images packed into an atlas
MaxLoads  == 4       \* images of an atlas whose loads are followed one by one
RubikN == 4          \* cells a side of the Rubik's-cube grid
ScrambleMoves == 2   \* moves of a scramble
MoveDone == 2        \* progress of a finished move, in steps
MaxGridTime == 3     \* last timeline time of the grid exercised on its own

\* ------------------------------------------------------ program constants
AnimLimitSec   == 60   \* animate(): elapsed < 60
ThrottlePeriod == 15   \* AnimationController: frameCount.current % 15
MAX_N          == 24
startHour      == 12   \* AtlasCubeGrid: const startHour = 12

UnitsPerSecond == 2 * fps
Sec(s)         == s * UnitsPerSecond
AnimLimit      == Sec(AnimLimitSec)

\* ------------------------------------------------------------- keyframes
\* KEYFRAME_MAP[targetScreen]: the authored list {time, camera.spherical,
\* config}.  Times are in seconds, angles in degrees.
Kf(t, r, th, ph, layout, n, sp, cs) ==
  [time |-> t,
   camera |-> [radius |-> r * Scale, theta |-> th * Scale, phi |-> ph * Scale],
   config |-> [layout |-> layout, N |-> n, spacing |-> sp * Scale,
               cubeSize |-> cs * Scale]]

KEYFRAME_MAP(targetScreen) ==
  << Kf(0, 60, 0, 90, "Cube", 24, 3, 1),
     Kf(1, 80, 40, 60, "Sphere", 12, 2, 2),
     Kf(2, 50, 90, 30, "Cube", 8, 4, 1) >>


Screens == {"Horizontal V3"}          \* target screens the page is opened with

Keyframes(w) == KEYFRAME_MAP(w.config.targetScreen)

\* --------------------------------------------------------------- state
VARIABLES
  recorder,            \* useFrameRecorder: state and refs of the hook
  chains,              \* pending continuations of processFrame (one per slot)
  page,                \* VisInteractive: playback state, recordingTime, window._canvas
  config,              \* the Leva store read by AtlasCubeGrid and the overlay
  animationConfigRef,  \* {spacing, cubeSize} written every controller tick
  camera,              \* camera position in spherical form (radius, theta, phi)
  ctl,                 \* AnimationController refs
  grid,                \* AtlasCubeGrid refs
  canvasImage,         \* what the last rendered frame drew on the canvas
  console,             \* last console.error message
  sink,                \* requests seen / frames stored for the current sequence
  hist,                \* history of the last tick, publish and run end
  probe                \* inputs and results of a component exercised on its own

pageVars == << recorder, chains, page, config, animationConfigRef, camera, ctl,
               grid, canvasImage, console, sink, hist >>

vars == << recorder, chains, page, config, animationConfigRef, camera, ctl,
           grid, canvasImage, console, sink, hist, probe >>

World ==
  [recorder |-> recorder, chains |-> chains, page |-> page, config |-> config,
   animationConfigRef |-> animationConfigRef, camera |-> camera, ctl |-> ctl,
   grid |-> grid, canvasImage |-> canvasImage, console |-> console,
   sink |-> sink, hist |-> hist]

Commit(w) ==
  /\ recorder' = w.recorder
  /\ chains' = w.chains
  /\ page' = w.page
  /\ config' = w.config
  /\ animationConfigRef' = w.animationConfigRef
  /\ camera' = w.camera
  /\ ctl' = w.ctl
  /\ grid' = w.grid
  /\ canvasImage' = w.canvasImage
  /\ console' = w.console
  /\ sink' = w.sink
  /\ hist' = w.hist
  /\ probe' = probe

\* ------------------------------------------------------------ arithmetic
\* the one element of a singleton set
Only(S) == CHOOSE x \in S : TRUE

Min(a, b) == IF a < b THEN a ELSE b
Max(a, b) == IF a > b THEN a ELSE b
Clamp01(p) == Min(Scale, Max(0, p))

\* THREE.MathUtils.smoothstep(x, 0, 1) = x*x*(3 - 2*x) on the clamped x
smoothstep(p) ==
  LET x == Clamp01(p) IN (x * x * (3 * Scale - 2 * x)) \div (Scale * Scale)

\* THREE.MathUtils.lerp(a, b, t) = (1 - t)*a + t*b
lerp(a, b, t) == a + ((b - a) * t) \div Scale

\* --------------------------------------------------- layout target arrays
\* A position array is kept as the weights of the target arrays it blends:
\* the target of (layout, N) is the unit weight on that shape, and the
\* per-instance lerp of the updater acts on the weights.
\* layouts the updater is exercised with on its own: two that need no
\* orientation, two that are oriented towards the origin
UpdaterLayouts == {"Cube", "Scatter", "Sphere", "Helix"}

Shapes == { <<kf.config.layout, kf.config.N>> :
              kf \in UNION { { KEYFRAME_MAP(s)[i] : i \in 1..Len(KEYFRAME_MAP(s)) } : s \in Screens } }
           \cup { <<"Cube", MAX_N>> }
           \cup (UpdaterLayouts \X (1..MaxGridN))

targetPositions(layout, N) ==
  [s \in Shapes |-> IF s = <<layout, N>> THEN Scale ELSE 0]

LerpPositions(start, target, progress) ==
  [s \in Shapes |-> start[s] + ((target[s] - start[s]) * progress) \div Scale]


\* ------------------------------------------------- AnimationController
HalfSec(h) == h * fps                \* h half-seconds, in time units

\* let DELAY = 1.5; 0.5 for the two V2 screens; 0 for Horizontal V3
DELAY(targetScreen) ==
  IF targetScreen \in {"Vertical V2", "Horizontal V2"} THEN HalfSec(1)
  ELSE IF targetScreen = "Horizontal V3" THEN 0
  ELSE HalfSec(3)

KfTime(kfs, i) == Sec(kfs[i].time)
totalDuration(kfs) == KfTime(kfs, Len(kfs))

\* a search that takes a segment only strictly after its first keyframe
StartIdxAfter(kfs, t) ==
  LET hits == { i \in 1..(Len(kfs) - 1) : t > KfTime(kfs, i) /\ t < KfTime(kfs, i + 1) }
  IN IF hits = {} THEN 1 ELSE CHOOSE i \in hits : \A j \in hits : i <= j

\* for (i = 0; i < length - 1; i++) if (t >= k[i].time && t < k[i+1].time)
\* { startIdx = i; break }   -- startIdx stays 0 (here 1) when nothing matches
StartIdx(kfs, t) ==
  LET hits == { i \in 1..(Len(kfs) - 1) : t >= KfTime(kfs, i) /\ t < KfTime(kfs, i + 1) }
  IN IF hits = {} THEN 1 ELSE CHOOSE i \in hits : \A j \in hits : i <= j

\* progress that starts moving at once, with no hold
ProgressWithoutHold(targetScreen, duration, elapsed) ==
  IF duration <= 0 THEN 0 ELSE Clamp01((elapsed * Scale) \div duration)

\* the linear ramp alone, neither held nor clamped
ProgressUnclamped(targetScreen, duration, elapsed) ==
  LET d == DELAY(targetScreen) IN
  IF duration - d <= 0 THEN (elapsed - d) * Scale
  ELSE ((elapsed - d) * Scale) \div (duration - d)

\* progress of the segment: pinned at 0 during the hold, then linear in [0, 1]
SegmentProgress(targetScreen, duration, elapsed) ==
  LET d == DELAY(targetScreen) IN
  IF d > 0 /\ elapsed < d THEN 0
  ELSE IF duration - d <= 0
       THEN (IF elapsed - d > 0 THEN Scale ELSE 0)   \* Math.max(0.001, ...)
       ELSE Clamp01(((elapsed - d) * Scale) \div (duration - d))

EasedProgress(targetScreen, progress) ==
  IF targetScreen = "Horizontal V3" THEN progress ELSE smoothstep(progress)

\* a time source that follows the playback clock only
CurrentTimeOfPlayback(w) == w.page.animationTime

\* the time source of both useFrame callbacks
CurrentTime(w) ==
  IF w.recorder.isRecording THEN w.page.recordingTime ELSE w.page.animationTime

IsPlaying(w) == w.page.isAnimating \/ w.recorder.isRecording

\* N interpolated like the continuous fields
BlendedN(startFrame, endFrame, eased) ==
  lerp(startFrame.config.N, endFrame.config.N, eased)

\* N is DISCRETE - use start frame value, no morphing
DiscreteN(startFrame, endFrame, eased) == startFrame.config.N
DiscreteLayout(startFrame, endFrame, eased) == startFrame.config.layout

\* what one tick computes from the time alone
ControllerOut(targetScreen, kfs, t) ==
  LET i     == StartIdx(kfs, t)
      a     == kfs[i]
      b     == kfs[i + 1]
      dur   == KfTime(kfs, i + 1) - KfTime(kfs, i)
      el    == t - KfTime(kfs, i)
      prog  == SegmentProgress(targetScreen, dur, el)
      eased == EasedProgress(targetScreen, prog)
  IN [segment  |-> i,
      progress |-> prog,
      eased    |-> eased,
      camera   |-> [radius |-> lerp(a.camera.radius, b.camera.radius, eased),
                    theta  |-> lerp(a.camera.theta, b.camera.theta, eased),
                    phi    |-> lerp(a.camera.phi, b.camera.phi, eased)],
      layout   |-> DiscreteLayout(a, b, eased),
      N        |-> DiscreteN(a, b, eased),
      spacing  |-> lerp(a.config.spacing, b.config.spacing, eased),
      cubeSize |-> lerp(a.config.cubeSize, b.config.cubeSize, eased),
      segmentDuration |-> dur]

\* what the last animation frame's ticks saw (history, for the properties)
NoTick == [playing |-> FALSE, recording |-> FALSE, time |-> 0, gridTime |-> 0,
           frame |-> 0, clamped |-> FALSE, published |-> FALSE,
           layout |-> "", N |-> 0]

\* the writes of a tick that computed o: camera, ref, throttled setConfig
ControllerApply(w, seen, o, publish) ==
  [w EXCEPT
     !.camera = o.camera,
     !.animationConfigRef = [spacing |-> o.spacing, cubeSize |-> o.cubeSize],
     !.config = IF publish
                THEN [@ EXCEPT !.layout = o.layout, !.N = o.N,
                               !.spacing = o.spacing, !.cubeSize = o.cubeSize,
                               !.segmentDuration = o.segmentDuration]
                ELSE @,
     !.ctl = [frameCount |-> (@.frameCount + 1) % ThrottlePeriod,
              lastLayout |-> IF publish THEN o.layout ELSE @.lastLayout,
              lastN      |-> IF publish THEN o.N ELSE @.lastN],
     !.hist.tick = [seen EXCEPT !.published = publish,
                                !.layout = o.layout, !.N = o.N]]

\* a throttle that lets nothing through between its periods
ThrottledOnly(layoutChanged, nChanged, frameCount) ==
  frameCount % ThrottlePeriod = 0

\* layoutChanged || nChanged || frameCount.current % 15 === 0
ShouldPublish(layoutChanged, nChanged, frameCount) ==
  layoutChanged \/ nChanged \/ frameCount % ThrottlePeriod = 0

\* useFrame of AnimationController
ControllerTick(w) ==
  LET kfs == Keyframes(w)
      t   == CurrentTime(w)
      seen == [NoTick EXCEPT !.playing = TRUE,
                             !.recording = w.recorder.isRecording,
                             !.time = t, !.frame = w.recorder.frameRef]
  IN
  IF ~IsPlaying(w) THEN [w EXCEPT !.hist.tick = NoTick]
  ELSE IF t >= totalDuration(kfs)
  THEN [w EXCEPT !.hist.tick = [seen EXCEPT !.clamped = TRUE]]
  ELSE
    Only({ ControllerApply(w, seen, o,
                           ShouldPublish(o.layout # w.ctl.lastLayout,
                                         o.N # w.ctl.lastN, w.ctl.frameCount)) :
           o \in { ControllerOut(w.config.targetScreen, kfs, t) } })

\* ------------------------------------------------------- AtlasCubeGrid
\* TRANSITION_DURATION = Math.min(baseDuration, config.segmentDuration || baseDuration)
TRANSITION_DURATION(cfg) ==
  LET baseDuration == HalfSec(3)
      segmentDuration == IF cfg.segmentDuration = 0 THEN baseDuration
                         ELSE cfg.segmentDuration
  IN Min(baseDuration, segmentDuration)

\* render body: "Detect Layout Change and Trigger Transition"
GridRender(w) ==
  LET t == CurrentTime(w)
      target == targetPositions(w.config.layout, w.config.N)
  IN
  IF w.config.layout = w.grid.lastLayout THEN w
  ELSE [w EXCEPT
          !.grid = [lastLayout |-> w.config.layout,
                    layoutStartTime |-> t,
                    startPositions |-> IF t = 0 THEN target ELSE @.currentPositions,
                    currentPositions |-> IF t = 0 THEN target ELSE @.currentPositions]]

\* layout-morph progress of a tick at time t
MorphProgress(cfg, layoutStartTime, t) ==
  smoothstep(Clamp01(((t - layoutStartTime) * Scale) \div TRANSITION_DURATION(cfg)))

\* useFrame of AtlasCubeGrid, run with the props of the last render
GridTick(w, props) ==
  LET t == CurrentTime(w)
      progress == MorphProgress(props, w.grid.layoutStartTime, t)
      u == LerpPositions(w.grid.startPositions,
                         targetPositions(props.layout, props.N), progress)
  IN [w EXCEPT
        !.hist.tick.gridTime = t,
        !.grid.currentPositions = u,
        !.canvasImage = [camera |-> w.camera, layout |-> props.layout,
                         N |-> props.N,
                         spacing |-> w.animationConfigRef.spacing,
                         cubeSize |-> w.animationConfigRef.cubeSize,
                         positions |-> u]]

\* "Sync Leva config to Ref when NOT animating" (effect after a render)
SyncRef(w) ==
  IF ~w.page.isAnimating /\ ~w.recorder.isRecording
  THEN [w EXCEPT !.animationConfigRef =
                    [spacing |-> w.config.spacing, cubeSize |-> w.config.cubeSize]]
  ELSE w

\* a React render after state changed: grid render body, then effects
Render(w) == SyncRef(GridRender(w))


\* ---------------------------------------------------- VisInteractive
\* stopAnimation: setIsAnimating(false); cancelAnimationFrame(requestRef.current)
stopAnimation(w) ==
  [w EXCEPT !.page.isAnimating = FALSE,
            !.page.animLoops = IF w.page.reqValid THEN @ - 1 ELSE @,
            !.page.reqValid = FALSE]

\* startAnimation: time 0, a new animate loop is requested
startAnimation(w) ==
  [w EXCEPT !.page.isAnimating = TRUE,
            !.page.animationTime = 0,
            !.page.elapsed = 0,
            !.page.animLoops = @ + 1,
            !.page.reqValid = TRUE]

\* const calculatedTotalFrames = Math.ceil(duration * fps)
totalFrames(w) == Keyframes(w)[Len(Keyframes(w))].time * fps

\* const time = frame / fps
FrameTime(frame) == frame * 2

\* ---------------------------------------------------- useFrameRecorder
BlankImage ==
  [camera |-> [radius |-> 0, theta |-> 0, phi |-> 0], layout |-> "", N |-> 0,
   spacing |-> 0, cubeSize |-> 0, positions |-> [s \in Shapes |-> 0]]

NoChain == [phase |-> "none", frame |-> 0, seq |-> 0, image |-> BlankImage]

EndChain(w, c) == [w EXCEPT !.chains[c] = NoChain]

Percent(frames, total) == [num |-> frames * 100, den |-> total]

ReturnValue(w) ==
  [isRecording |-> w.recorder.isRecording, progress |-> w.recorder.progress,
   currentFrame |-> w.recorder.currentFrame, totalFrames |-> totalFrames(w)]

\* stopRecording: the flag and the state go false, onStop() (which does
\* nothing on this page; its calls are counted)
stopRecording(w, why) ==
  [w EXCEPT !.recorder.isRecordingRef = FALSE,
            !.recorder.isRecording = FALSE,
            !.hist.onStop = @ + 1,
            !.hist.endReason = IF w.recorder.isRecording THEN why ELSE @]

\* a fatal failure on the frame of chain c: log, stopRecording, chain ends
Abort(w, c, message) ==
  LET w1 == stopRecording([w EXCEPT !.console = message], "aborted")
  IN EndChain([w1 EXCEPT !.hist.aborted = TRUE,
                         !.hist.abortFrame = w.chains[c].frame,
                         !.hist.abortFrameRef = w.recorder.frameRef,
                         !.hist.abortReqs = Len(w.sink.requests)], c)

\* processFrame up to its requestAnimationFrame
processFrame(w, c) ==
  IF ~w.recorder.isRecordingRef \/ ~w.recorder.canvasRef THEN EndChain(w, c)
  ELSE IF w.recorder.frameRef >= totalFrames(w)
  THEN EndChain(stopRecording(w, "completed"), c)
  ELSE [w EXCEPT !.page.recordingTime = FrameTime(w.recorder.frameRef),  \* onFrame(time)
                 !.chains[c] = [phase |-> "raf1", frame |-> w.recorder.frameRef,
                                seq |-> 0, image |-> BlankImage]]

\* startRecording(canvas, sequenceName); the continuation uses chain slot c
startRecording(w, canvas, sequenceName, c) ==
  IF ~canvas THEN [w EXCEPT !.console = "No canvas provided"]
  ELSE
    LET w1 == [w EXCEPT
                 !.recorder = [isRecording |-> TRUE, progress |-> Percent(0, 1),
                               currentFrame |-> 0, frameRef |-> 0,
                               isRecordingRef |-> TRUE, canvasRef |-> TRUE,
                               sequenceNameRef |-> sequenceName],
                 !.sink = [requests |-> << >>, saved |-> << >>],
                 !.hist.endReason = "none", !.hist.aborted = FALSE,
                 !.hist.abortFrame = 0, !.hist.abortFrameRef = 0,
                 !.hist.abortReqs = 0, !.hist.runs = @ + 1,
                 !.hist.overlap = \E d \in 1..MaxChains : w.chains[d].phase # "none",
                 !.hist.startedAt = w.hist.userActions + 1,
                 !.hist.onStop = 0]
        w2 == stopAnimation([w1 EXCEPT !.hist.onStart = @ + 1])     \* onStart()
    IN processFrame(w2, c)

\* setTimeout callback: canvas.toBlob, then uploadFrame reads the blob
Capture(w, c, gotBlob) ==
  IF gotBlob
  THEN [w EXCEPT !.chains[c].phase = "reading", !.chains[c].image = w.canvasImage]
  ELSE Abort(w, c, "Failed to capture blob")

\* reader.onloadend: the request is built and sent
SendRequest(w, c) ==
  [w EXCEPT !.chains[c].phase = "upload",
            !.chains[c].seq = w.recorder.sequenceNameRef,
            !.sink.requests = Append(@, w.chains[c].frame)]

\* the code after "await uploadFrame(blob, frame)"
NextFrame(w, c) ==
  LET n == w.recorder.frameRef + 1
  IN processFrame([w EXCEPT !.recorder.frameRef = n,
                            !.recorder.currentFrame = n,
                            !.recorder.progress = Percent(n, totalFrames(w))], c)

\* the sink answers (or the request rejects); the frame is stored on "ok"
Respond(w, c, outcome) ==
  IF outcome = "ok"
  THEN NextFrame([w EXCEPT !.sink.saved =
                     IF w.chains[c].seq = w.recorder.sequenceNameRef
                     THEN Append(@, w.chains[c].frame) ELSE @], c)
  ELSE Abort(w, c, "Frame processing error")


\* animate(time): the playback clock follows the wall clock
animate(w, dt) ==
  IF w.page.animLoops > 0
  THEN [w EXCEPT !.page.elapsed = @ + dt, !.page.animationTime = w.page.elapsed + dt]
  ELSE w

\* the requestAnimationFrame callbacks of processFrame
RafCallbacks(w) ==
  [w EXCEPT !.chains =
     [c \in 1..MaxChains |->
        IF @[c].phase = "raf1" THEN [@[c] EXCEPT !.phase = "raf2"]
        ELSE IF @[c].phase = "raf2" THEN [@[c] EXCEPT !.phase = "timeout"]
        ELSE @[c]]]

\* an animate() that keeps requesting frames for ever
animateForever(w) ==
  IF w.page.animLoops = 0 THEN w ELSE [w EXCEPT !.page.reqValid = TRUE]

\* animate(): request the next frame, or stopAnimation() at the limit; the
\* state change is seen by the render that follows the frame
animateNext(w) ==
  IF w.page.animLoops = 0 THEN w
  ELSE IF w.page.elapsed >= AnimLimit
  THEN [w EXCEPT !.page.isAnimating = FALSE, !.page.animLoops = 0,
                 !.page.reqValid = FALSE]
  ELSE [w EXCEPT !.page.reqValid = TRUE]

\* one browser animation frame: the two useFrame callbacks (the grid's with
\* the props of the last render) of the canvas loop, which has been requesting
\* frames since the canvas was created, the recorder's requestAnimationFrame
\* callbacks, animate(), which was requested after it, then React renders
BrowserFrame(w, dt) ==
  Only({ Render(w5) :
    w5 \in { animateNext(w4) :
      w4 \in { animate(w3, dt) :
        w3 \in { RafCallbacks(w2) :
          w2 \in { GridTick(w1, w.config) :
            w1 \in { ControllerTick(w) } } } } } })

\* "Jump to Keyframe" button i
jumpToKeyframe(w, i) ==
  LET kf == Keyframes(w)[i]
      w1 == stopAnimation(w)
  IN Render([w1 EXCEPT
               !.page.animationTime = KfTime(Keyframes(w), i),
               !.page.jumpTarget = i,
               !.config = [@ EXCEPT !.layout = kf.config.layout, !.N = kf.config.N,
                                    !.spacing = kf.config.spacing,
                                    !.cubeSize = kf.config.cubeSize],
               !.camera = IF w.page.canvasCreated /\ w.page.jumpTarget # i
                          THEN kf.camera ELSE @])

\* the "Render to Disk" button
clickRenderToDisk(w, c) ==
  IF w.recorder.isRecording
  THEN LET w1 == stopRecording(w, "stopped")
       IN Render([w1 EXCEPT !.hist.stopView = ReturnValue(w1),
                            !.hist.stopFrameRef = w.recorder.frameRef,
                            !.hist.stopReqs = Len(w.sink.requests)])
  ELSE Render(startRecording(w, w.page.canvasCreated, w.hist.runs + 1, c))

\* ---------------------------------------------------------------- Init
\* the idle page showing the given target screen, before the canvas exists
InitWorld(screen) ==
  [recorder |-> [isRecording |-> FALSE, progress |-> Percent(0, 1),
                 currentFrame |-> 0, frameRef |-> 0, isRecordingRef |-> FALSE,
                 canvasRef |-> FALSE, sequenceNameRef |-> 0],
   chains |-> [c \in 1..MaxChains |-> NoChain],
   page |-> [recordingTime |-> 0, isAnimating |-> FALSE, animationTime |-> 0,
             elapsed |-> 0, animLoops |-> 0, reqValid |-> FALSE,
             canvasCreated |-> FALSE, jumpTarget |-> 0],
   config |-> [layout |-> "Cube", targetScreen |-> screen, N |-> MAX_N,
               spacing |-> 3 * Scale, cubeSize |-> Scale,
               segmentDuration |-> HalfSec(3)],
   animationConfigRef |-> [spacing |-> 3 * Scale, cubeSize |-> Scale],
   camera |-> [radius |-> (34641 * Scale) \div 1000, theta |-> 45 * Scale,
               phi |-> (54736 * Scale) \div 1000],           \* position (20, 20, 20)
   ctl |-> [frameCount |-> 0, lastLayout |-> "null", lastN |-> 0],
   grid |-> [lastLayout |-> "Cube", layoutStartTime |-> 0,
             startPositions |-> targetPositions("Cube", MAX_N),
             currentPositions |-> targetPositions("Cube", MAX_N)],
   canvasImage |-> BlankImage,
   console |-> "",
   sink |-> [requests |-> << >>, saved |-> << >>],
   hist |-> [tick |-> NoTick, endReason |-> "none", aborted |-> FALSE,
             abortFrame |-> 0, abortFrameRef |-> 0, abortReqs |-> 0, runs |-> 0,
             overlap |-> FALSE, startedAt |-> 0, onStart |-> 0, onStop |-> 0,
             idleFrames |-> 0, userActions |-> 0,
             stopFrameRef |-> 0, stopReqs |-> 0,
             stopView |-> [isRecording |-> TRUE, progress |-> Percent(0, 1),
                           currentFrame |-> 0, totalFrames |-> 0]]]

NoProbe == [kind |-> "none"]

PageInit ==
  \E screen \in Screens :
    LET w == InitWorld(screen)
    IN /\ recorder = w.recorder
       /\ chains = w.chains
       /\ page = w.page
       /\ config = w.config
       /\ animationConfigRef = w.animationConfigRef
       /\ camera = w.camera
       /\ ctl = w.ctl
       /\ grid = w.grid
       /\ canvasImage = w.canvasImage
       /\ console = w.console
       /\ sink = w.sink
       /\ hist = w.hist

Init == PageInit /\ probe = NoProbe

\* ------------------------------------------------------------- actions
\* an event other than an animation frame
Event(w) == [w EXCEPT !.hist.tick = NoTick]

\* a user action: frames drawn after it count anew
User(w) == [Event(w) EXCEPT !.hist.idleFrames = 0, !.hist.userActions = @ + 1]

FreeSlot(c) == chains[c].phase = "none" /\ \A d \in 1..(c - 1) : chains[d].phase # "none"

CanvasCreated ==
  /\ ~page.canvasCreated
  /\ Commit(Event([World EXCEPT !.page.canvasCreated = TRUE]))

ClickRenderToDisk ==
  \E c \in 1..MaxChains :
    /\ FreeSlot(c)
    /\ hist.userActions < MaxUserActions
    /\ Commit(User(clickRenderToDisk(World, c)))

ClickTestAnimation ==
  /\ hist.userActions < MaxUserActions
  /\ page.animLoops < MaxLoops
  /\ Commit(User(Render(startAnimation(World))))

JumpToKeyframe ==
  /\ hist.userActions < MaxUserActions
  /\ \E i \in 1..Len(Keyframes(World)) : Commit(User(jumpToKeyframe(World, i)))

\* Wall-clock advance of one animation frame.  Once the timeline and the last
\* morph are over every tick is the same until animate() reaches its limit,
\* so the next frame modelled is the one that reaches it.
Horizon(w) == totalDuration(Keyframes(w)) + HalfSec(3)

StepChoices(w) ==
  IF w.page.animLoops = 0 THEN {1}
  ELSE IF w.page.elapsed < Horizon(w) THEN 1..MaxStep
  ELSE {AnimLimit - w.page.elapsed}

Awaited(w) ==
  \/ w.page.animLoops > 0
  \/ \E c \in 1..MaxChains : w.chains[c].phase \in {"raf1", "raf2"}

AnimationFrame ==
  /\ page.canvasCreated
  /\ Awaited(World) \/ hist.idleFrames < MaxIdleFrames
  /\ \E dt \in StepChoices(World) :
       \E w \in { BrowserFrame(World, dt) } :
         \E drawn \in { [w EXCEPT !.hist.idleFrames =
                           IF Awaited(World) THEN hist.idleFrames
                           ELSE hist.idleFrames + 1] } :
           Commit(drawn)

TimeoutFired ==
  \E c \in 1..MaxChains, gotBlob \in BOOLEAN :
    /\ chains[c].phase = "timeout"
    /\ Commit(Event(Render(Capture(World, c, gotBlob))))

ReaderLoadEnd ==
  \E c \in 1..MaxChains :
    /\ chains[c].phase = "reading"
    /\ Commit(Event(SendRequest(World, c)))

SaveFrameResponse ==
  \E c \in 1..MaxChains, outcome \in {"ok", "notok", "reject"} :
    /\ chains[c].phase = "upload"
    /\ Commit(Event(Render(Respond(World, c, outcome))))

Next ==
  \/ CanvasCreated
  \/ ClickRenderToDisk
  \/ ClickTestAnimation
  \/ JumpToKeyframe
  \/ AnimationFrame
  \/ TimeoutFired
  \/ ReaderLoadEnd
  \/ SaveFrameResponse

Spec == Init /\ [][Next]_vars


NextExport ==
  \/ CanvasCreated
  \/ ClickRenderToDisk
  \/ AnimationFrame
  \/ TimeoutFired
  \/ ReaderLoadEnd
  \/ SaveFrameResponse

SpecExport == Init /\ [][NextExport]_vars

NextPlay ==
  \/ CanvasCreated
  \/ ClickTestAnimation
  \/ JumpToKeyframe
  \/ AnimationFrame

SpecPlay == Init /\ [][NextPlay]_vars

\* Frame callbacks are scheduled fairly: the browser keeps delivering
\* animation frames while a callback is requested, and the canvas is created
\* once the page has mounted.
SpecPlayFair == SpecPlay /\ WF_vars(AnimationFrame) /\ WF_vars(CanvasCreated)

\* ------------------------------------------- the controller on its own
\* The keyframe files are authored data: the controller is exercised on every
\* timeline of TimelineLen keyframes that starts at 0 s, with whole-second
\* times up to MaxKfSec in any order, on every kind of target screen.
TimelineScreens == {"L-shaped", "Vertical V2", "Horizontal V2", "Horizontal V3"}

TimelineKeyframes(times) ==
  [i \in 1..Len(times) |->
     Kf(times[i], 40 + 10 * i, 30 * i, 90 - 20 * i,
        IF i % 2 = 1 THEN "Cube" ELSE "Sphere", 4 * i, i, 1 + (i % 2))]

Timelines ==
  { times \in [1..TimelineLen -> 0..MaxKfSec] :
      times[1] = 0 /\ times[TimelineLen] > 0 }

NoOut == [t |-> -1]

\* one useFrame tick of AnimationController at time t (below the end)
TimelineAt(pr, t) ==
  [pr EXCEPT !.t = t,
             !.out = ControllerOut(pr.targetScreen, TimelineKeyframes(pr.times), t),
             !.prev = [t |-> pr.t, out |-> pr.out]]

TimelineInit ==
  /\ PageInit
  /\ \E targetScreen \in TimelineScreens, times \in Timelines :
       probe = [kind |-> "timeline", targetScreen |-> targetScreen, times |-> times,
                t |-> 0,
                out |-> ControllerOut(targetScreen, TimelineKeyframes(times), 0),
                prev |-> NoOut]

\* the next tick, dt later (dt = 0: two ticks at the same time)
TimelineTick ==
  /\ probe.kind = "timeline"
  /\ \E dt \in 0..MaxStep :
       /\ probe.t + dt < totalDuration(TimelineKeyframes(probe.times))
       /\ probe' = TimelineAt(probe, probe.t + dt)
  /\ UNCHANGED pageVars

SpecTimeline == TimelineInit /\ [][TimelineTick]_vars

\* ---------------------------------------------- the updater on its own
\* AtlasCubeGrid with its buffers kept element by element.  A Float32Array
\* is the function of its first TrackedCount*k elements (no instance beyond
\* MaxGridN^3 is written here) together with its allocated length.  A unit
\* position is kept as the weights of the target arrays it blends, a matrix
\* element as the number or the product the code stores.
count(N) == N * N * N
MAX_COUNT == MAX_N * MAX_N * MAX_N
TrackedCount == MaxGridN * MaxGridN * MaxGridN

ZeroPosition == [s \in Shapes |-> 0]

\* positions.set(calculated): the generator's count*3 values, zeros after them
TargetArray(layout, N) ==
  [e \in 0..(TrackedCount * 3 - 1) |->
     IF e < count(N) * 3 THEN targetPositions(layout, N) ELSE ZeroPosition]

\* dependency list of a memo that would also follow spacing
targetDepsWithSpacing(cfg) == << cfg.layout, cfg.N, count(cfg.N), startHour, cfg.spacing >>

\* useMemo(..., [layout, N, count, startHour])
targetDeps(cfg) == << cfg.layout, cfg.N, count(cfg.N), startHour >>

needsRotation(layout) == layout \in {"Sphere", "Cylinder", "Helix", "Conical"}

\* a number stored in the transform buffer
Num(n) == [num |-> n]

\* element k of the transform of an instance at world position pos (x, y, z),
\* written without orientation
FastElement(k, pos, s) ==
  CASE k \in {0, 5, 10} -> Num(s)
    [] k \in {12, 13, 14} -> pos[k - 11]
    [] k = 15 -> Num(Scale)
    [] OTHER -> Num(0)

\* tempObject.matrix.elements[k] after position.set, scale.set(s, s, s),
\* lookAt(0, 0, 0), updateMatrix: rotation times scale, translation, 0 0 0 1
SlowElement(k, pos, s) ==
  CASE k \in {3, 7, 11} -> Num(0)
    [] k \in {12, 13, 14} -> pos[k - 11]
    [] k = 15 -> Num(Scale)
    [] OTHER -> [lookAt |-> pos, scale |-> s, element |-> k]

\* a selection that orients every layout
AlwaysRotate(layout, k, pos, s) == SlowElement(k, pos, s)

MatrixElement(layout, k, pos, s) ==
  IF ~needsRotation(layout) THEN FastElement(k, pos, s) ELSE SlowElement(k, pos, s)

\* ux * currentSpacing
WorldCoordinate(u, spacing) == [unit |-> u, times |-> spacing]

\* body of the loop for instance i
InstanceWrite(g, i, progress) ==
  LET u == [a \in 1..3 |->
              LerpPositions(g.startPositions[i * 3 + a - 1],
                            g.targetPositions[i * 3 + a - 1], progress)]
      pos == [a \in 1..3 |-> WorldCoordinate(u[a], g.spacing)]
  IN [g EXCEPT
        !.currentPositions =
           [e \in DOMAIN @ |-> IF e \in (i * 3)..(i * 3 + 2) THEN u[e - i * 3 + 1] ELSE @[e]],
        !.instanceMatrix =
           [k \in DOMAIN @ |->
              IF k \in (i * 16)..(i * 16 + 15)
              THEN MatrixElement(g.layout, k - i * 16, pos, g.cubeSize)
              ELSE @[k]],
        !.last.wrote = @ \cup (i * 16)..(i * 16 + 15)]

\* a loop that flags the buffer after each instance
MarkPerInstance(g, i, progress) ==
  [InstanceWrite(g, i, progress) EXCEPT !.last.marks = @ + 1]

LoopBody(g, i, progress) == InstanceWrite(g, i, progress)

RECURSIVE InstanceLoop(_, _, _, _)
\* for (let i = 0; i < count; i++) { ... }
InstanceLoop(g, i, n, progress) ==
  IF i >= n THEN g
  ELSE InstanceLoop(Only({ LoopBody(g, i, progress) }), i + 1, n, progress)

NoWrites == [op |-> "none", ran |-> FALSE, wrote |-> {}, marks |-> 0, before |-> << >>,
             moved |-> FALSE, shown |-> << >>, at |-> 0]

\* useFrame of AtlasCubeGrid at timeline time t
UpdaterTick(g, t) ==
  IF ~g.mesh \/ ~g.atlas
  THEN [g EXCEPT !.time = t,
                 !.last = [NoWrites EXCEPT !.op = "tick", !.before = g.instanceMatrix,
                                           !.shown = g.currentPositions]]
  ELSE
    Only({ [done EXCEPT !.last.marks = @ + 1] :       \* instanceMatrix.needsUpdate = true
      done \in { InstanceLoop(
                   [g EXCEPT !.time = t,
                             !.meshCount = count(g.N),
                             !.last = [NoWrites EXCEPT !.op = "tick", !.ran = TRUE,
                                                       !.before = g.instanceMatrix,
                                                       !.shown = g.currentPositions]],
                   0, count(g.N),
                   MorphProgress(g, g.layoutStartTime, t)) } })

\* a morph that starts again from the target of the layout before
StartAtOldTarget(g, target) ==
  IF g.time = 0 THEN target ELSE g.targetPositions

\* startPositions after a layout change: snapped to the target at time 0,
\* startPositions.current.set(currentPositions.current) otherwise
CapturedStart(g, target) ==
  IF g.time = 0 THEN target ELSE g.currentPositions

\* a render of AtlasCubeGrid with the config cfg: memo, change detection
UpdaterRender(g, cfg) ==
  LET rerun  == targetDeps(cfg) # g.targetDeps
      target == IF rerun THEN TargetArray(cfg.layout, cfg.N) ELSE g.targetPositions
      moved  == cfg.layout # g.lastLayout
  IN [g EXCEPT
        !.layout = cfg.layout, !.N = cfg.N,
        !.spacing = cfg.spacing, !.cubeSize = cfg.cubeSize,
        !.targetDeps = targetDeps(cfg),
        !.targetPositions = target,
        !.targetRuns = IF rerun THEN @ + 1 ELSE @,
        !.startPositions = IF ~moved THEN @ ELSE CapturedStart(g, target),
        !.currentPositions = IF moved /\ g.time = 0 THEN target ELSE @,
        !.layoutStartTime = IF moved THEN g.time ELSE @,
        !.lastLayout = cfg.layout,
        !.renders = @ + 1,
        !.last = [NoWrites EXCEPT !.op = "render", !.before = g.instanceMatrix,
                                  !.moved = moved, !.shown = g.currentPositions]]

\* new THREE.InstancedMesh(null, null, MAX_COUNT): a zero-filled matrix buffer
MountedGrid(layout, N, spacing, cubeSize) ==
  [kind |-> "updater",
   layout |-> layout, N |-> N, spacing |-> spacing, cubeSize |-> cubeSize,
   segmentDuration |-> 0, targetScreen |-> "L-shaped",
   atlas |-> FALSE, mesh |-> FALSE, time |-> 0,
   lastLayout |-> layout, layoutStartTime |-> 0,
   targetDeps |-> targetDeps([layout |-> layout, N |-> N, spacing |-> spacing]),
   targetPositions |-> TargetArray(layout, N), targetRuns |-> 1,
   currentPositions |-> TargetArray(layout, N),
   startPositions |-> TargetArray(layout, N),
   positionsLength |-> MAX_COUNT * 3,
   instanceMatrix |-> [k \in 0..(TrackedCount * 16 - 1) |-> Num(0)],
   matrixLength |-> MAX_COUNT * 16,
   meshCount |-> MAX_COUNT, renders |-> 0,
   last |-> NoWrites]

UpdaterSpacings == {Scale, 3 * Scale}

\* config.segmentDuration: not set, or the length of a short segment
UpdaterSegments == {0, HalfSec(1)}

UpdaterInit ==
  /\ PageInit
  /\ \E layout \in UpdaterLayouts, N \in 1..MaxGridN, segmentDuration \in UpdaterSegments :
       probe = [MountedGrid(layout, N, 3 * Scale, Scale)
                  EXCEPT !.segmentDuration = segmentDuration]

\* createAtlas resolved: setAtlas, the render mounts the instancedMesh
UpdaterAtlasReady ==
  /\ probe.kind = "updater"
  /\ ~probe.atlas
  /\ probe' = [probe EXCEPT !.atlas = TRUE, !.mesh = TRUE,
                            !.last = [NoWrites EXCEPT !.op = "atlas",
                                                      !.before = probe.instanceMatrix]]
  /\ UNCHANGED pageVars

\* the config changes (controls or controller): one field at a time
UpdaterConfig ==
  /\ probe.kind = "updater"
  /\ probe.renders < MaxRenders
  /\ \E layout \in UpdaterLayouts, N \in 1..MaxGridN, spacing \in UpdaterSpacings :
       /\ Cardinality({ f \in {"layout", "N", "spacing"} :
                          \/ f = "layout" /\ layout # probe.layout
                          \/ f = "N" /\ N # probe.N
                          \/ f = "spacing" /\ spacing # probe.spacing }) = 1
       /\ probe' = UpdaterRender(probe, [layout |-> layout, N |-> N,
                                         spacing |-> spacing, cubeSize |-> probe.cubeSize])
  /\ UNCHANGED pageVars

\* an animation frame: useFrame runs at the time the time source holds,
\* then the time source moves on by dt (animate() in playback; none while a
\* frame of an export is drawn)
UpdaterFrame ==
  /\ probe.kind = "updater"
  /\ \E dt \in 0..1 :
       /\ probe.time + dt <= MaxGridTime
       /\ probe' = [UpdaterTick(probe, probe.time) EXCEPT !.time = @ + dt,
                                                          !.last.at = probe.time]
  /\ UNCHANGED pageVars

NextUpdater == UpdaterAtlasReady \/ UpdaterConfig \/ UpdaterFrame

SpecUpdater == UpdaterInit /\ [][NextUpdater]_vars

\* ------------------------------------------------ the grid's buffer sizes
\* AtlasCubeGrid for every N the controls or a keyframe deliver.  A buffer
\* is kept as its allocated length, the number of times it was allocated,
\* the length of the prefix written so far, and whether a write was aimed
\* past its end.
Float32Array(length) ==
  [length |-> length, allocations |-> 1, written |-> 0, overrun |-> FALSE]

\* writes of the elements 0 .. n-1
WritePrefix(buf, n) ==
  [buf EXCEPT !.written = Max(@, Min(n, buf.length)),
              !.overrun = @ \/ n > buf.length]

\* N of the controls: { value: 24, min: 1, max: 24, step: 1 }
ControlsN == 1..MAX_N

\* N of the keyframes of the target screens
KeyframeN ==
  UNION { { KEYFRAME_MAP(s)[i].config.N : i \in 1..Len(KEYFRAME_MAP(s)) } : s \in Screens }

\* a tick that leaves the mesh count as it is
KeepMeshCount(g) == g

\* if (meshRef.current.count !== count) meshRef.current.count = count
SetMeshCount(g) == [g EXCEPT !.meshCount = count(g.N)]

\* useFrame: the count, then the writes of the loop for i < count
SizeTick(g) ==
  IF ~g.mesh \/ ~g.atlas THEN [g EXCEPT !.last = "early return"]
  ELSE [SetMeshCount(g) EXCEPT
          !.currentPositions = WritePrefix(@, count(g.N) * 3),
          !.instanceMatrix = WritePrefix(@, count(g.N) * 16),
          !.last = "tick"]

\* a render with a new N: indexArray and targetPositions are built anew in
\* arrays of the fixed length and copied into the attribute
SizeRender(g, N) ==
  [g EXCEPT
     !.N = N,
     !.indexArray = IF N = g.N THEN @
                    ELSE WritePrefix(Float32Array(MAX_COUNT), count(N)),
     !.targetPositions = IF N = g.N THEN @
                         ELSE WritePrefix(Float32Array(MAX_COUNT * 3), count(N) * 3),
     !.aAtlasIndex = IF g.mesh /\ N # g.N THEN WritePrefix(@, MAX_COUNT) ELSE @,
     !.last = "render"]

SizeInit ==
  /\ PageInit
  /\ \E N \in ControlsN :
       probe = [kind |-> "size", N |-> N, atlas |-> FALSE, mesh |-> FALSE,
                meshCount |-> MAX_COUNT,
                indexArray |-> WritePrefix(Float32Array(MAX_COUNT), count(N)),
                targetPositions |-> WritePrefix(Float32Array(MAX_COUNT * 3), count(N) * 3),
                currentPositions |-> WritePrefix(Float32Array(MAX_COUNT * 3), MAX_COUNT * 3),
                startPositions |-> WritePrefix(Float32Array(MAX_COUNT * 3), MAX_COUNT * 3),
                aAtlasIndex |-> [Float32Array(MAX_COUNT) EXCEPT !.allocations = 0],
                instanceMatrix |-> [Float32Array(MAX_COUNT * 16) EXCEPT !.allocations = 0],
                last |-> "mount"]

\* setAtlas: the instancedMesh mounts with MAX_COUNT instances, the layout
\* effect creates the attribute and copies indexArray into it
SizeAtlasReady ==
  /\ probe.kind = "size"
  /\ ~probe.atlas
  /\ probe' = [probe EXCEPT
                 !.atlas = TRUE, !.mesh = TRUE,
                 !.instanceMatrix.allocations = @ + 1,
                 !.aAtlasIndex = WritePrefix([@ EXCEPT !.allocations = @ + 1], MAX_COUNT),
                 !.last = "atlas"]
  /\ UNCHANGED pageVars

SizeControls ==
  /\ probe.kind = "size"
  /\ \E N \in ControlsN : probe' = SizeRender(probe, N)
  /\ UNCHANGED pageVars

SizeKeyframe ==
  /\ probe.kind = "size"
  /\ \E N \in KeyframeN : probe' = SizeRender(probe, N)
  /\ UNCHANGED pageVars

SizeFrame ==
  /\ probe.kind = "size"
  /\ probe' = SizeTick(probe)
  /\ UNCHANGED pageVars

NextSize == SizeAtlasReady \/ SizeControls \/ SizeKeyframe \/ SizeFrame

SpecSize == SizeInit /\ [][NextSize]_vars

\* ------------------------------------------------ the atlas index array
\* IMAGE_FILES: one image per month and per two-hour slot, month-major
IMAGE_FILES ==
  [k \in 1..(12 * 12) |-> [month |-> ((k - 1) \div 12) + 1, hour |-> ((k - 1) % 12) * 2]]
imageCount == Len(IMAGE_FILES)

\* an index that takes startHour for the slot shift
UnflooredIndex(x, z) == (x % 12) * 12 + ((z + startHour) % 12)

\* idx[i] = monthIdx * 12 + hourIdx, with startHourIdx = Math.floor(startHour / 2)
AtlasIndex(x, z) == (x % 12) * 12 + ((z + (startHour \div 2)) % 12)

\* the loops for x, for y, for z of the indexArray memo, one iteration at a
\* time: idx[i] is written, then i++
IndexLoopStart(N) ==
  [kind |-> "index", N |-> N, x |-> 0, y |-> 0, z |-> 0, i |-> 0,
   wrote |-> FALSE, at |-> 0, value |-> 0]

IndexIteration(g) ==
  [g EXCEPT !.wrote = TRUE, !.at = g.i, !.value = AtlasIndex(g.x, g.z),
            !.i = @ + 1,
            !.z = IF g.z + 1 < g.N THEN g.z + 1 ELSE 0,
            !.y = IF g.z + 1 < g.N THEN @
                  ELSE IF g.y + 1 < g.N THEN g.y + 1 ELSE 0,
            !.x = IF g.z + 1 < g.N \/ g.y + 1 < g.N THEN @ ELSE g.x + 1]

IndexInit ==
  /\ PageInit
  /\ \E N \in 1..MAX_N : probe = IndexLoopStart(N)

IndexStep ==
  /\ probe.kind = "index"
  /\ probe.x < probe.N
  /\ probe' = IndexIteration(probe)
  /\ UNCHANGED pageVars

SpecIndex == IndexInit /\ [][IndexStep]_vars

\* ------------------------------------------------ the layout generator
\* getOtherLayoutPositions(type, count, N, 1.0, 1.0, startHour), followed for
\* what kind of number each coordinate is: "finite", "NaN" or "Infinity".
\* The magnitudes stay far from the float range (N <= 24, cosh and sinh of at
\* most 2), so a coordinate is finite unless an operand is not.
LayoutTypes ==
  {"Cube", "Sphere", "Cylinder", "Scatter", "Elliptic Cylinder",
   "Parabolic Cylinder", "Paraboloidal", "Ellipsoidal", "Oblate Spheroidal",
   "Prolate Spheroidal", "Bispherical", "Conical"}

\* a / b for integers a >= 0 and b >= 0, as JavaScript divides
Quotient(a, b) ==
  IF b # 0 THEN "finite" ELSE IF a = 0 THEN "NaN" ELSE "Infinity"

\* a sum, product or elementary function of the operands
Arith(operands) ==
  IF "NaN" \in operands THEN "NaN"
  ELSE IF "Infinity" \in operands THEN "Infinity"
  ELSE "finite"

\* Math.acos(1 - 2 * (effectiveI + 0.5) / count), with
\* effectiveI = (i + timeOffset * count) % count, counted in halves
AcosOfSphere(i, n) ==
  LET twiceEffectiveI == (2 * i + (startHour * n) \div 12) % (2 * n)
  IN IF twiceEffectiveI + 1 <= 2 * n /\ n # 0 THEN "finite" ELSE "NaN"

\* u = uc * 2.0 in thousandths, for a finite uc
BisphericalU(ix, N) == ((2000 * ix) \div (N - 1) - 1000) * 2

\* u_safe = (Math.abs(u) < 0.1 ? 0.1 : u): the comparison is false for NaN
BisphericalSafeU(ix, N) ==
  IF Quotient(ix, N - 1) # "finite" THEN [kind |-> Quotient(ix, N - 1), milli |-> 0]
  ELSE LET u == BisphericalU(ix, N)
       IN [kind |-> "finite", milli |-> IF u < 100 /\ u > -100 THEN 100 ELSE u]

\* numerator / (cosh(u_safe) - cos(v)) with v in (0, pi): the denominator is
\* 0 only for u_safe = 0
BisphericalQuotient(uSafe, v) ==
  IF uSafe.kind # "finite" \/ v # "finite" THEN Arith({uSafe.kind, v})
  ELSE IF uSafe.milli = 0 THEN "Infinity"
  ELSE "finite"

\* the kinds of x, y, z of grid cell (ix, iy, iz), instance i
CellPosition(type, n, N, ix, iy, iz, i) ==
  LET u0 == Quotient(ix, N - 1)
      v0 == Quotient(iy, N - 1)
      w0 == Quotient(iz, N)
      uc == u0
      vc == v0
      wc == w0
      effectiveI == Quotient(i, 1)
      ofCount == Quotient(i, n)
  IN CASE type = "Sphere" ->
            << Arith({AcosOfSphere(i, n), effectiveI}),
               Arith({AcosOfSphere(i, n), effectiveI}),
               AcosOfSphere(i, n) >>
       [] type = "Cylinder" -> << ofCount, ofCount, ofCount >>
       [] type = "Scatter" -> << effectiveI, effectiveI, effectiveI >>
       [] type = "Elliptic Cylinder" -> << Arith({u0, v0}), Arith({u0, v0}), wc >>
       [] type = "Parabolic Cylinder" -> << Arith({uc, vc}), Arith({uc, vc}), wc >>
       [] type = "Paraboloidal" ->
            << Arith({u0, v0, w0}), Arith({u0, v0, w0}), Arith({u0, v0}) >>
       [] type = "Ellipsoidal" ->
            << Arith({wc, u0, v0}), Arith({wc, u0, v0}), Arith({wc, u0}) >>
       [] type = "Oblate Spheroidal" ->
            << Arith({u0, vc, w0}), Arith({u0, vc, w0}), Arith({u0, vc}) >>
       [] type = "Prolate Spheroidal" ->
            << Arith({u0, v0, w0}), Arith({u0, v0, w0}), Arith({u0, v0}) >>
       [] type = "Bispherical" ->
            << BisphericalQuotient(BisphericalSafeU(ix, N), Arith({v0, w0})),
               BisphericalQuotient(BisphericalSafeU(ix, N), Arith({v0, w0})),
               BisphericalQuotient(BisphericalSafeU(ix, N), v0) >>
       [] type = "Conical" -> << Arith({uc, w0, v0}), uc, Arith({uc, w0, v0}) >>
       [] OTHER -> << "finite", "finite", w0 >>          \* default: Cube

\* positions = new Float32Array(count * 3); let i = 0; loops start
GeneratorStart(type, N) ==
  [kind |-> "layout", type |-> type, N |-> N, count |-> count(N),
   length |-> count(N) * 3, ix |-> 0, iy |-> 0, iz |-> 0, i |-> 0,
   wrote |-> FALSE, at |-> 0, position |-> << "finite", "finite", "finite" >>,
   written |-> 0]

\* one iteration of the innermost loop: positions[i*3 ..] = x, y, z; i++
GeneratorIteration(g) ==
  [g EXCEPT !.wrote = TRUE, !.at = g.i,
            !.position = CellPosition(g.type, g.count, g.N, g.ix, g.iy, g.iz, g.i),
            !.written = IF g.i * 3 + 2 < g.length THEN @ + 3 ELSE @,
            !.i = @ + 1,
            !.iz = IF g.iz + 1 < g.N THEN g.iz + 1 ELSE 0,
            !.iy = IF g.iz + 1 < g.N THEN @
                   ELSE IF g.iy + 1 < g.N THEN g.iy + 1 ELSE 0,
            !.ix = IF g.iz + 1 < g.N \/ g.iy + 1 < g.N THEN @ ELSE g.ix + 1]

GeneratorInit ==
  /\ PageInit
  /\ \E type \in LayoutTypes, N \in 1..MAX_N : probe = GeneratorStart(type, N)

GeneratorStep ==
  /\ probe.kind = "layout"
  /\ probe.ix < probe.N
  /\ probe' = GeneratorIteration(probe)
  /\ UNCHANGED pageVars

SpecLayout == GeneratorInit /\ [][GeneratorStep]_vars

\* ------------------------------------------- the generator's Cube lattice
\* The default branch of getOtherLayoutPositions, in exact arithmetic: a
\* coordinate is kept as the integer coordinate * 48 * N (spacing in
\* fixed-point steps), which holds iz / N, startHour / 24 and the halves.
CubeUnit(N) == 48 * N

\* let w0 = (iz / N + timeOffset) % 1.0, in units of 1 / (24 * N)
W0(iz, N, hour) == (24 * iz + hour * N) % (24 * N)

\* x = (ix * spacing) - offset, offset = (N - 1) * spacing / 2
CubeXY(ix, N, spacing) ==
  CubeUnit(N) * ix * spacing - 24 * N * (N - 1) * spacing

\* z_shifted = (w0 * (N - 1) * spacing) - offset
CubeZ(iz, N, spacing, hour) ==
  2 * W0(iz, N, hour) * (N - 1) * spacing - 24 * N * (N - 1) * spacing

CubeTypes == {"Cube", "Helix", ""}       \* the default branch of the switch
CubeHours == {0, startHour}

CubeStart(type, N, spacing, hour) ==
  [kind |-> "cube", type |-> type, N |-> N, spacing |-> spacing, hour |-> hour,
   ix |-> 0, iy |-> 0, iz |-> 0, i |-> 0,
   wrote |-> FALSE, cell |-> << 0, 0, 0 >>, position |-> << 0, 0, 0 >>]

\* one iteration of the innermost loop in the default branch
CubeIteration(g) ==
  [g EXCEPT !.wrote = TRUE,
            !.cell = << g.ix, g.iy, g.iz >>,
            !.position = << CubeXY(g.ix, g.N, g.spacing),
                            CubeXY(g.iy, g.N, g.spacing),
                            CubeZ(g.iz, g.N, g.spacing, g.hour) >>,
            !.i = @ + 1,
            !.iz = IF g.iz + 1 < g.N THEN g.iz + 1 ELSE 0,
            !.iy = IF g.iz + 1 < g.N THEN @
                   ELSE IF g.iy + 1 < g.N THEN g.iy + 1 ELSE 0,
            !.ix = IF g.iz + 1 < g.N \/ g.iy + 1 < g.N THEN @ ELSE g.ix + 1]

CubeInit ==
  /\ PageInit
  /\ \E type \in CubeTypes, N \in 1..MaxCubeN, spacing \in UpdaterSpacings,
        hour \in CubeHours :
       probe = CubeStart(type, N, spacing, hour)

CubeStep ==
  /\ probe.kind = "cube"
  /\ probe.ix < probe.N
  /\ probe' = CubeIteration(probe)
  /\ UNCHANGED pageVars

SpecCube == CubeInit /\ [][CubeStep]_vars

\* -------------------------------------------------- the atlas's cells
\* createAtlas packs the images into cells; the fragment shader looks the
\* cell of an atlas index up.  Rows of the canvas count from the top, rows of
\* the texture (CanvasTexture, flipY) from the bottom.
\* Math.ceil(Math.sqrt(count))
CeilSqrt(n) == CHOOSE c \in 0..n : c * c >= n /\ (c = 0 \/ (c - 1) * (c - 1) < n)

\* a row count rounded down
FloorRows(n, cols) == n \div cols

\* Math.ceil(count / cols)
CeilRows(n, cols) == (n + cols - 1) \div cols

\* ctx.drawImage(img, col * cellSize, row * cellSize, ...): the canvas cell
DrawnCell(i, cols) == [col |-> i % cols, row |-> i \div cols]

\* the canvas row shown at a texture row counted from the bottom
CanvasRow(textureRow, rows) == rows - 1 - textureRow

\* a lookup that takes the row from the top of the texture
UnflippedOffset(vIndex, cols, rows) ==
  [col |-> vIndex % cols, textureRow |-> vIndex \div cols]

\* offset = vec2(col / cols, (rows - 1.0 - row) / rows)
SampleOffset(vIndex, cols, rows) ==
  [col |-> vIndex % cols, textureRow |-> rows - 1 - (vIndex \div cols)]

NoCell == [col |-> -1, row |-> -1]

AtlasStart(n) ==
  [kind |-> "cells", count |-> n,
   cols |-> CeilSqrt(n), rows |-> CeilRows(n, CeilSqrt(n)),
   i |-> 0, cells |-> << >>, sampled |-> NoCell, vIndex |-> -1]

CellsInit ==
  /\ PageInit
  /\ \E n \in 1..MaxImageCount : probe = AtlasStart(n)

\* images.forEach((img, i) => ...) for a loaded image i
DrawImage ==
  /\ probe.kind = "cells"
  /\ probe.i < probe.count
  /\ probe' = [probe EXCEPT !.cells = Append(@, DrawnCell(probe.i, probe.cols)),
                            !.i = @ + 1,
                            !.sampled = NoCell, !.vIndex = -1]
  /\ UNCHANGED pageVars

\* the fragment shader run for the instance whose atlas index was drawn last
SampleCell ==
  /\ probe.kind = "cells"
  /\ probe.i > 0
  /\ probe.vIndex = -1
  /\ \E o \in { SampleOffset(probe.i - 1, probe.cols, probe.rows) } :
       probe' = [probe EXCEPT !.vIndex = probe.i - 1,
                              !.sampled = [col |-> o.col,
                                           row |-> CanvasRow(o.textureRow, probe.rows)]]
  /\ UNCHANGED pageVars

SpecCells == CellsInit /\ [][DrawImage \/ SampleCell]_vars

\* ------------------------------------------------ the atlas's image loads
\* createAtlas with its parallel image loads: every load settles on its own,
\* in any order; Promise.all keeps the results in the order of the urls.
LoadStart(n) ==
  [kind |-> "load", count |-> n,
   cols |-> CeilSqrt(n), rows |-> CeilRows(n, CeilSqrt(n)),
   images |-> [i \in 0..(n - 1) |-> "pending"],
   settled |-> << >>,                      \* indices in the order they settled
   canvas |-> [c \in { DrawnCell(i, CeilSqrt(n)) : i \in 0..(n - 1) } |-> "blank"],
   warnings |-> 0, state |-> "loading", returned |-> [cols |-> 0, rows |-> 0]]

\* img.onload = () => resolve(img)
onload(g, i) ==
  [g EXCEPT !.images[i] = "img", !.settled = Append(@, i)]

\* a handler that rejects the promise of the failed image
onerrorRejects(g, i) ==
  [g EXCEPT !.images[i] = "rejected", !.settled = Append(@, i),
            !.warnings = @ + 1, !.state = "rejected"]

\* img.onerror = () => { console.warn(...); resolve(null) }
onerror(g, i) ==
  [g EXCEPT !.images[i] = "null", !.settled = Append(@, i), !.warnings = @ + 1]

\* after await Promise.all: images.forEach draws every image that is not
\* null into its cell; return { canvas, cols, rows, total }
drawAndReturn(g) ==
  [g EXCEPT !.canvas = [c \in DOMAIN @ |->
                          IF \E i \in 0..(g.count - 1) :
                               g.images[i] = "img" /\ DrawnCell(i, g.cols) = c
                          THEN [image |-> CHOOSE i \in 0..(g.count - 1) :
                                            /\ g.images[i] = "img"
                                            /\ DrawnCell(i, g.cols) = c
                                            /\ \A j \in (i + 1)..(g.count - 1) :
                                                 ~(g.images[j] = "img"
                                                   /\ DrawnCell(j, g.cols) = c)]
                          ELSE @[c]],
            !.state = "resolved",
            !.returned = [cols |-> g.cols, rows |-> g.rows]]

LoadInit ==
  /\ PageInit
  /\ \E n \in 1..MaxLoads : probe = LoadStart(n)

ImageLoaded ==
  /\ probe.kind = "load" /\ probe.state = "loading"
  /\ \E i \in 0..(probe.count - 1) :
       probe.images[i] = "pending" /\ probe' = onload(probe, i)
  /\ UNCHANGED pageVars

ImageFailed ==
  /\ probe.kind = "load" /\ probe.state = "loading"
  /\ \E i \in 0..(probe.count - 1) :
       probe.images[i] = "pending" /\ probe' = onerror(probe, i)
  /\ UNCHANGED pageVars

\* Promise.all settles once every image promise has resolved
AllLoadsSettled ==
  /\ probe.kind = "load" /\ probe.state = "loading"
  /\ \A i \in 0..(probe.count - 1) : probe.images[i] \in {"img", "null"}
  /\ probe' = drawAndReturn(probe)
  /\ UNCHANGED pageVars

SpecLoad == LoadInit /\ [][ImageLoaded \/ ImageFailed \/ AllLoadsSettled]_vars

\* ------------------------------------------------ the save-frame endpoint
\* The handler of /api/save-frame and the request uploadFrame sends to it.
\* A file name is a record of its three parts; the digits of the index are a
\* sequence of numbers 0..9.
SinkSequences == {"seqA", "seqB"}
SinkFrameIndices == {0, 10, 9999, 10000}
SinkImages == {"data:image/png;base64,QUJD"}
Undefined == [defined |-> FALSE, n |-> 0]
Defined(n) == [defined |-> TRUE, n |-> n]

RECURSIVE Digits(_)
\* String(frameIndex) of a non-negative integer
Digits(n) == IF n < 10 THEN << n >> ELSE Append(Digits(n \div 10), n % 10)

RECURSIVE padStart(_, _, _)
\* String.prototype.padStart(targetLength, fill) with a one-character fill
padStart(str, targetLength, fill) ==
  IF Len(str) >= targetLength THEN str
  ELSE padStart(<< fill >> \o str, targetLength, fill)

\* `frame_${String(frameIndex).padStart(4, '0')}.png`
fileName(frameIndex) ==
  [prefix |-> "frame_", digits |-> padStart(Digits(frameIndex), 4, 0), ext |-> ".png"]

\* image.replace(/^data:image\/png;base64,/, "")
base64Data(image) ==
  IF image = "data:image/png;base64,QUJD" THEN "QUJD" ELSE image

\* a check that takes every falsy field for a missing one
MissingFalsy(body) ==
  \/ body.sequenceName = ""
  \/ ~body.frameIndex.defined \/ body.frameIndex.n = 0
  \/ body.image = ""

\* !sequenceName || frameIndex === undefined || !image
MissingFields(body) ==
  \/ body.sequenceName = ""
  \/ ~body.frameIndex.defined
  \/ body.image = ""

SinkFaults == {"none", "mkdir", "write"}

\* handler(req, res): the file system after the request and the status sent
handler(disk, req, fault) ==
  IF req.method # "POST" THEN [disk |-> disk, status |-> 405]
  ELSE IF MissingFields(req.body) THEN [disk |-> disk, status |-> 400]
  ELSE
    LET recordingsDir == "recordings"
        sequenceDir   == req.body.sequenceName
        withRecordings == [disk EXCEPT !.dirs = @ \cup {recordingsDir}]
        withSequence   == [withRecordings EXCEPT !.dirs = @ \cup {sequenceDir}]
        path == [dir |-> sequenceDir, file |-> fileName(req.body.frameIndex.n)]
    IN IF fault = "mkdir" /\ recordingsDir \notin disk.dirs
         THEN [disk |-> disk, status |-> 500]
       ELSE IF fault = "mkdir" /\ sequenceDir \notin disk.dirs
         THEN [disk |-> withRecordings, status |-> 500]
       ELSE IF fault = "write"
         THEN [disk |-> withSequence, status |-> 500]
       ELSE [disk |-> [withSequence EXCEPT
                         !.files = { f \in @ : f.path # path }
                                   \cup {[path |-> path,
                                          data |-> base64Data(req.body.image)]}],
             status |-> 200]

\* response.ok
ResponseOk(status) == status >= 200 /\ status <= 299

\* uploadFrame: the request of the exporter; it rejects when fetch throws or
\* the response is not ok
uploadFrame(disk, sequenceName, frameIndex, image, network, fault) ==
  IF network = "down" THEN [disk |-> disk, status |-> 0, outcome |-> "rejected"]
  ELSE LET r == handler(disk, [method |-> "POST",
                               body |-> [sequenceName |-> sequenceName,
                                         frameIndex |-> Defined(frameIndex),
                                         image |-> image]], fault)
       IN [disk |-> r.disk, status |-> r.status,
           outcome |-> IF ResponseOk(r.status) THEN "resolved" ELSE "rejected"]

NoRequest ==
  [method |-> "", body |-> [sequenceName |-> "", frameIndex |-> Undefined, image |-> ""]]

SinkInit ==
  /\ PageInit
  /\ probe = [kind |-> "sink", disk |-> [dirs |-> {}, files |-> {}],
              req |-> NoRequest, fault |-> "none",
              status |-> 0, outcome |-> "", before |-> [dirs |-> {}, files |-> {}]]

\* the exporter uploads a frame
UploadFrame ==
  /\ probe.kind = "sink"
  /\ \E sequenceName \in SinkSequences, frameIndex \in SinkFrameIndices,
        image \in SinkImages, network \in {"up", "down"}, fault \in SinkFaults :
       \E r \in { uploadFrame(probe.disk, sequenceName, frameIndex, image, network, fault) } :
         probe' = [probe EXCEPT
                     !.disk = r.disk, !.status = r.status, !.outcome = r.outcome,
                     !.fault = fault, !.before = probe.disk,
                     !.req = [method |-> IF network = "up" THEN "POST" ELSE "",
                              body |-> [sequenceName |-> sequenceName,
                                        frameIndex |-> Defined(frameIndex),
                                        image |-> image]]]
  /\ UNCHANGED pageVars

\* any other request reaching the endpoint
OtherRequest ==
  /\ probe.kind = "sink"
  /\ \E method \in {"GET", "POST"}, sequenceName \in SinkSequences \cup {""},
        frameIndex \in {Undefined} \cup { Defined(n) : n \in SinkFrameIndices },
        image \in SinkImages \cup {""} :
       LET req == [method |-> method,
                   body |-> [sequenceName |-> sequenceName,
                             frameIndex |-> frameIndex, image |-> image]]
       IN /\ method = "GET" \/ MissingFields(req.body)
          /\ \E r \in { handler(probe.disk, req, "none") } :
               probe' = [probe EXCEPT
                           !.disk = r.disk, !.status = r.status, !.outcome = "",
                           !.fault = "none", !.before = probe.disk, !.req = req]
  /\ UNCHANGED pageVars

SpecSink == SinkInit /\ [][UploadFrame \/ OtherRequest]_vars

\* ------------------------------------------------ the Rubik's-cube view
\* RubiksGrid: the logical grid cells (lx, ly, lz) of the cubes, the scramble
\* and the solver.  The grid has RubikN cells a side (12 in the source) and
\* the scramble ScrambleMoves moves (60 in the source).
RubikCells == 0..(RubikN - 1)
RubikIds == 0..(RubikN * RubikN * RubikN - 1)
Axes == {"x", "y", "z"}
Moves == [axis : Axes, index : RubikCells, dir : {1, -1}]
NoMove == [axis |-> "", index |-> 0, dir |-> 0]

\* the cube pushed i-th by the loops over x, y, z
getInitialCubes ==
  [i \in RubikIds |-> << i \div (RubikN * RubikN), (i \div RubikN) % RubikN, i % RubikN >>]

\* Vector3.applyAxisAngle(axis, dir * PI / 2) on twice the centred vector:
\* cos is 0 and sin is dir
applyAxisAngle(v, axis, dir) ==
  CASE axis = "x" -> << v[1], -dir * v[3], dir * v[2] >>
    [] axis = "y" -> << dir * v[3], v[2], -dir * v[1] >>
    [] axis = "z" -> << -dir * v[2], dir * v[1], v[3] >>

\* Math.round of the half h / 2: the nearest integer, a tie goes up
RoundHalf(h) == (h + 1) \div 2

\* the layer test of applyMoveInstant: Math.round(c.l<axis>) === index
inLayer(cell, move) ==
  CASE move.axis = "x" -> cell[1] = move.index
    [] move.axis = "y" -> cell[2] = move.index
    [] move.axis = "z" -> cell[3] = move.index
    [] OTHER -> FALSE

\* the logical coordinates of a cube of the layer after the move:
\* vec = l - center, rotated, then Math.round(vec + center), center = (N - 1) / 2
MovedCell(cell, move) ==
  LET vec == [a \in 1..3 |-> 2 * cell[a] - (RubikN - 1)]
      rot == applyAxisAngle(vec, move.axis, move.dir)
  IN [a \in 1..3 |-> RoundHalf(rot[a] + (RubikN - 1))]

applyMoveInstant(cubes, move) ==
  [i \in DOMAIN cubes |-> IF inLayer(cubes[i], move) THEN MovedCell(cubes[i], move)
                          ELSE cubes[i]]

RECURSIVE applyMoves(_, _)
\* moves.forEach(move => applyMoveInstant(move))
applyMoves(cubes, moves) ==
  IF moves = << >> THEN cubes
  ELSE applyMoves(applyMoveInstant(cubes, Head(moves)), Tail(moves))

\* a solve queue that replays the scramble backwards without inverting it
reverseOnly(moves) ==
  [k \in 1..Len(moves) |-> moves[Len(moves) + 1 - k]]

\* moves.reverse().map(m => ({ ...m, dir: -m.dir }))
solveMoves(moves) ==
  [k \in 1..Len(moves) |-> [moves[Len(moves) + 1 - k] EXCEPT !.dir = -@]]

\* scramble(): the moves are applied at once, the solve queue is stored
scramble(g, moves) ==
  [g EXCEPT !.cubes = applyMoves(g.cubes, moves),
            !.moveQueue = solveMoves(moves),
            !.scrambled = moves,
            !.shown = applyMoves(g.cubes, moves)]

\* useFrame of RubiksGrid with delta * speed = step (in units of 1 / MoveDone)
rubikFrame(g, step) ==
  IF ~g.isSolving THEN g
  ELSE IF g.currentMove = NoMove /\ g.moveQueue = << >>
  THEN [g EXCEPT !.isSolving = FALSE, !.solved = TRUE]        \* setIsSolving(false)
  ELSE
    LET popped == IF g.currentMove # NoMove THEN g
                  ELSE [g EXCEPT !.currentMove = Head(g.moveQueue),
                                 !.moveQueue = Tail(g.moveQueue),
                                 !.progress = 0,
                                 !.dequeued = Append(@, Head(g.moveQueue))]
        progress == popped.progress + step
    IN IF progress >= MoveDone
       THEN [popped EXCEPT !.cubes = applyMoveInstant(@, popped.currentMove),
                           !.shown = applyMoveInstant(popped.cubes, popped.currentMove),
                           !.progress = progress,
                           !.currentMove = NoMove]
       ELSE [popped EXCEPT !.progress = progress]

RubikInit ==
  /\ PageInit
  /\ probe = [kind |-> "rubik", atlas |-> FALSE, isSolving |-> FALSE,
              cubes |-> getInitialCubes, shown |-> getInitialCubes,
              moveQueue |-> << >>, currentMove |-> NoMove, progress |-> 0,
              scrambled |-> << >>, dequeued |-> << >>, solved |-> FALSE]

\* createAtlas resolved: the effect on [atlas] scrambles
RubikAtlasReady ==
  /\ probe.kind = "rubik"
  /\ ~probe.atlas
  /\ \E moves \in [1..ScrambleMoves -> Moves] :
       probe' = scramble([probe EXCEPT !.atlas = TRUE], moves)
  /\ UNCHANGED pageVars

\* the "Start Solve" button, disabled while solving
ClickStartSolve ==
  /\ probe.kind = "rubik"
  /\ ~probe.isSolving
  /\ probe' = [probe EXCEPT !.isSolving = TRUE, !.solved = FALSE]
  /\ UNCHANGED pageVars

RubikFrame ==
  /\ probe.kind = "rubik"
  /\ \E step \in 1..MoveDone : probe' = rubikFrame(probe, step)
  /\ UNCHANGED pageVars

SpecRubik == RubikInit /\ [][RubikAtlasReady \/ ClickStartSolve \/ RubikFrame]_vars

\* ============================================================ properties
Chains == 1..MaxChains
Live(c) == chains[c].phase # "none"
T == totalFrames(World)
FinalKeyframe == Keyframes(World)[Len(Keyframes(World))]
StrictlyIncreasing(q) == \A i \in 1..(Len(q) - 1) : q[i] < q[i + 1]

\* the requests of the current sequence that have been sent and not answered
InFlight == { c \in Chains : chains[c].phase = "upload"
                             /\ chains[c].seq = recorder.sequenceNameRef }

\* C1: within one export run at most one save request is outstanding at any
\* instant, and the requests of the run are issued in strictly increasing
\* frame order.
C1_SequentialBackpressure ==
  /\ Cardinality(InFlight) <= 1
  /\ StrictlyIncreasing(sink.requests)

\* C2: once a frame has failed fatally the export is over: recording is off,
\* the frame counter stays where the failure found it and no further request
\* is issued.
C2_FailureAbortsExport ==
  hist.aborted =>
    /\ ~recorder.isRecording
    /\ recorder.frameRef = hist.abortFrameRef
    /\ Len(sink.requests) = hist.abortReqs

\* C3: on every tick made while an export runs, the controller and the morph
\* updater both read the time frameIndex / fps of the frame being processed,
\* whatever the playback clock says.
C3_VirtualClockDrivesExport ==
  hist.tick.recording =>
    /\ hist.tick.time = FrameTime(hist.tick.frame)
    /\ hist.tick.gridTime = FrameTime(hist.tick.frame)
    /\ hist.tick.frame < T
    /\ \E c \in Chains : Live(c) /\ chains[c].frame = hist.tick.frame

\* C3 witness: an export tick at frame 1 or later while playback has been
\* started and its clock shows another time.
C3_Witness ==
  /\ hist.tick.recording
  /\ hist.tick.frame >= 1
  /\ page.isAnimating
  /\ page.animationTime # hist.tick.time

\* the export of a freshly mounted page, run alone with nothing else
\* happening: the world at the moment frame k is captured
RECURSIVE FreshExport(_, _)
FreshExport(screen, k) ==
  LET TwoFrames(w) == BrowserFrame(BrowserFrame(w, 1), 1)
      mounted == [InitWorld(screen) EXCEPT !.page.canvasCreated = TRUE]
  IN IF k = 0 THEN TwoFrames(clickRenderToDisk(mounted, 1))
     ELSE TwoFrames(Render(NextFrame(FreshExport(screen, k - 1), 1)))

\* C4: the picture captured for frame k of an export run is the one a fresh
\* page captures for frame k, whatever playback, jump or export happened
\* before the run started (the run itself is left alone: no click since its
\* start and no chain left over from an earlier run).
C4_ExportReproducible ==
  \A c \in Chains :
    ( /\ chains[c].phase \in {"reading", "upload"}
      /\ recorder.isRecording
      /\ ~hist.overlap
      /\ hist.userActions = hist.startedAt )
    => chains[c].image = FreshExport(config.targetScreen, chains[c].frame).canvasImage

\* C5: after a manual stop the frame that was in flight is dropped: the frame
\* counter and the progress stay as the stop left them and no request is sent.
C5_StopDiscardsInFlight ==
  (hist.endReason = "stopped" /\ ~recorder.isRecording) =>
    /\ recorder.frameRef = hist.stopFrameRef
    /\ recorder.progress = hist.stopView.progress
    /\ Len(sink.requests) = hist.stopReqs

\* C6: no request is ever made for a frame index >= T, and a run that ends as
\* completed has stored exactly the frames 0..T-1, once each, in order.
C6_CompleteRunPersistsAll ==
  /\ \A i \in 1..Len(sink.requests) : sink.requests[i] < T
  /\ hist.endReason = "completed" =>
       /\ ~recorder.isRecording
       /\ sink.saved = [i \in 1..T |-> i - 1]

\* C7: the reported progress is 100 * (frames stored) / T, lies in [0, 100]
\* and is 100 only when all T frames are stored.
C7_ProgressIsPercentStored ==
  LET p == recorder.progress
  IN /\ p.num * T = 100 * Len(sink.saved) * p.den
     /\ 0 <= p.num /\ p.num <= 100 * p.den
     /\ p.num = 100 * p.den => Len(sink.saved) = T

\* C8: what the recorder reports after a run of its own was aborted differs
\* from what it reported after the manual stop of an earlier run (it carries
\* the error).
C8_AbortIsDistinguishable ==
  (hist.endReason = "aborted" /\ ~hist.overlap) =>
    ReturnValue(World) # hist.stopView

\* C9: a tick at or after the final keyframe's time leaves the camera and the
\* config at the final keyframe's values.
C9_ClampAtFinalKeyframe ==
  hist.tick.clamped =>
    /\ camera = FinalKeyframe.camera
    /\ config.layout = FinalKeyframe.config.layout
    /\ config.N = FinalKeyframe.config.N
    /\ config.spacing = FinalKeyframe.config.spacing
    /\ config.cubeSize = FinalKeyframe.config.cubeSize

\* C10: on every tick inside the timeline the layout and N put out are those
\* of the keyframe k_i that opens the bracketing segment [k_i.time,
\* k_i+1.time), so they change only at a segment boundary.
C10_DiscreteFieldsFromSegmentStart ==
  (hist.tick.playing /\ ~hist.tick.clamped) =>
    \E i \in 1..(Len(Keyframes(World)) - 1) :
      /\ KfTime(Keyframes(World), i) <= hist.tick.time
      /\ hist.tick.time < KfTime(Keyframes(World), i + 1)
      /\ hist.tick.layout = Keyframes(World)[i].config.layout
      /\ hist.tick.N = Keyframes(World)[i].config.N
      /\ hist.tick.published =>
           /\ config.layout = Keyframes(World)[i].config.layout
           /\ config.N = Keyframes(World)[i].config.N

\* C10 witness: a tick strictly inside the second segment, where the start
\* and end keyframes differ in layout and in N.
C10_Witness ==
  /\ hist.tick.playing /\ ~hist.tick.clamped
  /\ hist.tick.time > KfTime(Keyframes(World), 2)
  /\ hist.tick.time < KfTime(Keyframes(World), 3)
  /\ hist.tick.N = Keyframes(World)[2].config.N
  /\ Keyframes(World)[2].config.N # Keyframes(World)[3].config.N

\* ---------------------------------------------------------------- C11
\* C11: in every segment the progress is 0 at the segment's start and stays
\* 0 while the segment-local elapsed time is below the hold delay of the
\* scene (1.5 s, 0.5 s for Vertical V2 and Horizontal V2, none for
\* Horizontal V3); camera, spacing and cube size then equal k_i's values.
TimelineKfs == TimelineKeyframes(probe.times)
SegmentElapsed == probe.t - KfTime(TimelineKfs, probe.out.segment)

HoldOfScene(targetScreen) ==
  CASE targetScreen \in {"Vertical V2", "Horizontal V2"} -> HalfSec(1)
    [] targetScreen = "Horizontal V3" -> 0
    [] OTHER -> HalfSec(3)

C12_ProgressBoundedMonotone ==
  probe.kind = "timeline" =>
    /\ probe.out.progress \in 0..Scale
    /\ probe.out.eased \in 0..Scale
    /\ (probe.prev # NoOut /\ probe.prev.out.segment = probe.out.segment) =>
         /\ probe.prev.t <= probe.t
         /\ probe.prev.out.progress <= probe.out.progress
         /\ probe.prev.out.eased <= probe.out.eased

\* two ticks of one segment, the progress strictly between 0 and 1 and growing
C12_Witness ==
  /\ probe.kind = "timeline"
  /\ probe.prev # NoOut
  /\ probe.prev.out.segment = probe.out.segment
  /\ 0 < probe.prev.out.progress
  /\ probe.prev.out.progress < probe.out.progress
  /\ probe.out.progress < Scale
  /\ probe.prev.out.eased < probe.out.eased

\* ---------------------------------------------------------------- C13
\* C13: for every time t below the final keyframe's time the selected
\* segment brackets t (k_i.time <= t < k_{i+1}.time), and no other segment
\* does when the keyframe times are strictly increasing.
Brackets(kfs, i, t) == KfTime(kfs, i) <= t /\ t < KfTime(kfs, i + 1)

C13_SegmentBrackets ==
  (probe.kind = "timeline" /\ probe.t < totalDuration(TimelineKfs)) =>
    /\ Brackets(TimelineKfs, probe.out.segment, probe.t)
    /\ StrictlyIncreasing(probe.times) =>
         \A j \in 1..(Len(probe.times) - 1) :
           Brackets(TimelineKfs, j, probe.t) => j = probe.out.segment

\* a tick at the very start of a later segment of an increasing timeline
C13_Witness ==
  /\ probe.kind = "timeline"
  /\ StrictlyIncreasing(probe.times)
  /\ probe.out.segment > 1
  /\ probe.t = KfTime(TimelineKfs, probe.out.segment)
  /\ Brackets(TimelineKfs, probe.out.segment, probe.t)

\* ---------------------------------------------------------------- C14
\* C14: live playback is Idle -> Playing -> Idle without looping.  Playing is
\* entered only by a start, with elapsed time 0; while Playing the elapsed
\* time never decreases unless playback is started anew; under fair
\* scheduling of the frame callbacks playback returns to Idle; and while the
\* page is Idle (and no export runs) no tick changes camera or config.
Playing == page.isAnimating
UserActed == hist'.userActions = hist.userActions + 1

C14_EntersAtZero ==
  [][(~Playing /\ Playing') => (UserActed /\ page'.animationTime = 0)]_vars

C14_TimeNeverDecreases ==
  [][(Playing /\ Playing' /\ page'.animationTime < page.animationTime)
       => (UserActed /\ page'.animationTime = 0)]_vars

C14_IdleTicksChangeNothing ==
  [][(~Playing /\ ~recorder.isRecording /\ ~UserActed)
       => (~Playing' /\ camera' = camera /\ config' = config)]_vars

C14_PlaybackStateMachine ==
  /\ C14_EntersAtZero
  /\ C14_TimeNeverDecreases
  /\ C14_IdleTicksChangeNothing
  /\ Playing ~> ~Playing

\* playback ran to the limit of animate() and the page is Idle again
C14_Witness ==
  /\ ~Playing
  /\ page.animLoops = 0
  /\ page.elapsed >= AnimLimit
  /\ page.animationTime = page.elapsed

\* ---------------------------------------------------------------- C15
\* C15: a tick writes, for every instance i < count, exactly the 16 elements
\* [i*16, i*16+16), leaves every element from count*16 on unchanged and
\* marks the buffer dirty exactly once; a tick that returns early because
\* the mesh or the atlas is missing writes nothing and marks nothing.
Ticked == probe.kind = "updater" /\ probe.last.op = "tick"

C15_TickWritesLiveSlices ==
  Ticked =>
    IF probe.last.ran
    THEN /\ probe.last.wrote = 0..(count(probe.N) * 16 - 1)
         /\ \A k \in DOMAIN probe.instanceMatrix :
              k >= count(probe.N) * 16 => probe.instanceMatrix[k] = probe.last.before[k]
         /\ probe.last.marks = 1
    ELSE /\ probe.last.wrote = {}
         /\ probe.instanceMatrix = probe.last.before
         /\ probe.last.marks = 0

\* a tick of a grid smaller than before: the slices of the instances that are
\* no longer live keep what an earlier tick wrote
C15_Witness ==
  /\ Ticked
  /\ probe.last.ran
  /\ probe.last.marks = 1
  /\ count(probe.N) < TrackedCount
  /\ probe.instanceMatrix[count(probe.N) * 16] # Num(0)
  /\ probe.instanceMatrix # probe.last.before

\* a tick before the atlas exists
C15_WitnessEarlyReturn == Ticked /\ ~probe.last.ran /\ probe.time > 0

\* ---------------------------------------------------------------- C16
\* C16: the write path of a tick is selected by the layout.  Layouts that
\* need no orientation get the fast path (scale s in elements 0, 5, 10, the
\* world position in 12..14, 1 in 15, 0 elsewhere); Sphere, Cylinder, Helix
\* and Conical, and only they, get the look-at path; both paths put the
\* instance at the same world position.
LayoutNames ==
  {"Cube", "Sphere", "Cylinder", "Scatter", "Elliptic Cylinder",
   "Parabolic Cylinder", "Paraboloidal", "Ellipsoidal", "Oblate Spheroidal",
   "Prolate Spheroidal", "Bispherical", "Conical", "Helix"}
Oriented == {"Sphere", "Cylinder", "Helix", "Conical"}

\* world position of instance i: its interpolated unit position times spacing
WorldPosition(i, a) ==
  [unit |-> probe.currentPositions[i * 3 + a - 1], times |-> probe.spacing]

IsFastSlice(i) ==
  \A k \in 0..15 :
    probe.instanceMatrix[i * 16 + k] =
      IF k \in {0, 5, 10} THEN Num(probe.cubeSize)
      ELSE IF k \in {12, 13, 14} THEN WorldPosition(i, k - 11)
      ELSE IF k = 15 THEN Num(Scale)
      ELSE Num(0)

IsLookAtSlice(i) ==
  /\ \A k \in {12, 13, 14} : probe.instanceMatrix[i * 16 + k] = WorldPosition(i, k - 11)
  /\ \A k \in {0, 1, 2, 4, 5, 6, 8, 9, 10} :
       probe.instanceMatrix[i * 16 + k] =
         [lookAt |-> [a \in 1..3 |-> WorldPosition(i, a)],
          scale |-> probe.cubeSize, element |-> k]

C16_PathSelectedByLayout ==
  /\ \A layout \in LayoutNames : needsRotation(layout) <=> layout \in Oriented
  /\ (Ticked /\ probe.last.ran) =>
       \A i \in 0..(count(probe.N) - 1) :
         IF probe.layout \in Oriented THEN IsLookAtSlice(i) /\ ~IsFastSlice(i)
         ELSE IsFastSlice(i) /\ ~IsLookAtSlice(i)

\* a look-at tick in the middle of a morph from a layout written the fast way
C16_Witness ==
  /\ Ticked /\ probe.last.ran
  /\ probe.layout = "Helix"
  /\ probe.currentPositions[0] # probe.targetPositions[0]
  /\ probe.currentPositions[0] # probe.startPositions[0]
  /\ IsLookAtSlice(0)

\* ---------------------------------------------------------------- C17
\* C17: after every tick the live instance count is N^3 for the N the grid
\* is rendered with, N is within 1..24 and the count at most 24^3 = 13824;
\* the position, atlas-index and transform buffers are allocated once with
\* their 24^3-based length, whatever N becomes, and no write is aimed past
\* the end of a buffer.
SizedBuffers ==
  { probe.indexArray, probe.targetPositions, probe.currentPositions,
    probe.startPositions, probe.aAtlasIndex, probe.instanceMatrix }

CellX(i, N) == i \div (N * N)
CellZ(i, N) == i % N

C18_AtlasIndexInRange ==
  /\ imageCount = 144
  /\ (probe.kind = "index" /\ probe.wrote) =>
       /\ probe.at < probe.N * probe.N * probe.N
       /\ probe.value \in 0..(imageCount - 1)
       /\ probe.value = (CellX(probe.at, probe.N) % 12) * 12
                        + ((CellZ(probe.at, probe.N) + 6) % 12)
       /\ probe.i = probe.N * probe.N * probe.N => probe.x = probe.N

\* the last instance of the full grid: months and slots have wrapped
C18_Witness ==
  /\ probe.kind = "index" /\ probe.wrote
  /\ probe.N = 24
  /\ probe.at = 24 * 24 * 24 - 1
  /\ probe.value = 11 * 12 + 5

\* ---------------------------------------------------------------- C19
\* C19: a tick of the updater never writes the target-position array, and
\* the array is recomputed only by a render in which the layout or N has
\* changed, never because spacing, cube size or the timeline time changed.
TargetRecomputed == probe'.targetRuns # probe.targetRuns

C19_TickLeavesTarget ==
  [][(probe.kind = "updater" /\ probe'.last.op = "tick")
       => (probe'.targetPositions = probe.targetPositions /\ ~TargetRecomputed)]_vars

C19_RecomputedOnShapeChange ==
  [][(probe.kind = "updater" /\ TargetRecomputed)
       => (probe'.layout # probe.layout \/ probe'.N # probe.N)]_vars

C19_TargetIsOfShape ==
  [](probe.kind = "updater" =>
       probe.targetPositions = TargetArray(probe.layout, probe.N))

C19_TargetImmutable ==
  /\ C19_TickLeavesTarget
  /\ C19_RecomputedOnShapeChange
  /\ C19_TargetIsOfShape

\* the spacing was changed after ticks at a later time: still the first array
C19_Witness ==
  /\ probe.kind = "updater"
  /\ probe.last.op = "render"
  /\ probe.time > 0
  /\ probe.atlas
  /\ probe.spacing = Scale
  /\ probe.targetRuns = 1

\* ---------------------------------------------------------------- C20
\* C20: for each of the twelve layout types and every N the generator,
\* called with count = N^3, returns exactly N^3*3 values, and every one of
\* them is finite (not NaN, not Infinity), N = 1 and the bispherical
\* singular inputs included.
GeneratorReturned == probe.kind = "layout" /\ probe.ix = probe.N

C20_GeneratorValuesFinite ==
  /\ (probe.kind = "layout" /\ probe.wrote) =>
       \A a \in 1..3 : probe.position[a] = "finite"
  /\ GeneratorReturned =>
       /\ probe.length = probe.N * probe.N * probe.N * 3
       /\ probe.written = probe.length

\* the values are finite as soon as the grid has two cells a side
C20_FiniteFromTwo ==
  (probe.kind = "layout" /\ probe.wrote /\ probe.N >= 2) =>
    \A a \in 1..3 : probe.position[a] = "finite"

\* the types whose single cell of N = 1 is finite
C20_FiniteAtOne ==
  (probe.kind = "layout" /\ probe.wrote /\ probe.N = 1) =>
    (probe.position = << "finite", "finite", "finite" >>
       <=> probe.type \in {"Cube", "Sphere", "Cylinder", "Scatter"})

\* ---------------------------------------------------------------- C21
\* C21: for the Cube layout and any unrecognised type, with spacing s and
\* timeOffset = 0, the position of every cell (ix, iy, iz) is exactly
\* ((ix-(N-1)/2)*s, (iy-(N-1)/2)*s, (iz-(N-1)/2)*s).
\* (index - (N-1)/2) * s, as a multiple of 1 / (48 * N)
LatticeCoordinate(index, N, s) == (2 * index - (N - 1)) * s * 24 * N

C21_CubeIsExactLattice ==
  (probe.kind = "cube" /\ probe.wrote /\ probe.hour = 0) =>
    \A a \in 1..3 :
      probe.position[a] = LatticeCoordinate(probe.cell[a], probe.N, probe.spacing)

\* x and y are the lattice's for every time offset
C21_CubeXYIsLattice ==
  (probe.kind = "cube" /\ probe.wrote) =>
    \A a \in 1..2 :
      probe.position[a] = LatticeCoordinate(probe.cell[a], probe.N, probe.spacing)

\* without time offset z is the lattice's z shrunk by (N - 1) / N
C21_CubeZIsShrunk ==
  (probe.kind = "cube" /\ probe.wrote /\ probe.hour = 0) =>
    probe.position[3] * probe.N
      = 48 * probe.N * probe.spacing
          * (probe.cell[3] * (probe.N - 1)) - 24 * probe.N * probe.N * (probe.N - 1) * probe.spacing

\* ---------------------------------------------------------------- C22
\* C22: for every count >= 1 the atlas has cols = ceil(sqrt(count)) and
\* rows = ceil(count/cols) (4 and 3 for count = 12), so cols*rows >= count,
\* and image i gets the cell (i mod cols, floor(i/cols)), inside the grid and
\* shared with no other image.
C22_AtlasPacking ==
  probe.kind = "cells" =>
    /\ probe.cols >= 1 /\ probe.rows >= 1
    /\ probe.cols * probe.cols >= probe.count
    /\ (probe.cols - 1) * (probe.cols - 1) < probe.count
    /\ probe.cols * probe.rows >= probe.count
    /\ probe.cols * (probe.rows - 1) < probe.count
    /\ probe.count = 12 => (probe.cols = 4 /\ probe.rows = 3)
    /\ \A k \in 1..Len(probe.cells) :
         /\ probe.cells[k] = [col |-> (k - 1) % probe.cols, row |-> (k - 1) \div probe.cols]
         /\ probe.cells[k].col < probe.cols
         /\ probe.cells[k].row < probe.rows
         /\ k < Len(probe.cells) => probe.cells[k] # probe.cells[Len(probe.cells)]

\* the twelve images of a 4 x 3 atlas are all drawn, the last one bottom right
C22_Witness ==
  /\ probe.kind = "cells"
  /\ probe.count = 12
  /\ probe.i = 12
  /\ probe.cells[12] = [col |-> 3, row |-> 2]

\* ---------------------------------------------------------------- C24
\* C24: for every atlas index i < count the cell the render-time lookup
\* samples (column i mod cols, row rows-1-floor(i/cols) from the bottom) is
\* the cell in which image i was drawn, and no other index samples it.
C24_LookupFindsDrawnCell ==
  (probe.kind = "cells" /\ probe.vIndex >= 0) =>
    /\ probe.sampled = probe.cells[probe.vIndex + 1]
    /\ \A k \in 1..Len(probe.cells) :
         k # probe.vIndex + 1 => probe.cells[k] # probe.sampled

\* an index of the 12 x 12 atlas that lies neither in the top nor the bottom row
C24_Witness ==
  /\ probe.kind = "cells"
  /\ probe.count = 144
  /\ probe.vIndex = 17
  /\ probe.sampled = [col |-> 5, row |-> 1]

\* ---------------------------------------------------------------- C23
\* C23: a failed image load never aborts the atlas.  Whatever images fail and
\* in whatever order the loads finish, createAtlas is never rejected, it
\* resolves once all loads have settled, with the cols and rows of the count;
\* the cell of a failed image is blank and the cell of a loaded image i holds
\* image i.
LoadIndices == 0..(probe.count - 1)

C23_FailedLoadLeavesBlank ==
  probe.kind = "load" =>
    /\ probe.state # "rejected"
    /\ (probe.state = "loading" /\ \A i \in LoadIndices : probe.images[i] # "pending")
         => ENABLED AllLoadsSettled
    /\ probe.state = "resolved" =>
         /\ probe.returned = [cols |-> CeilSqrt(probe.count),
                              rows |-> CeilRows(probe.count, CeilSqrt(probe.count))]
         /\ \A i \in LoadIndices :
              LET cell == [col |-> i % probe.returned.cols, row |-> i \div probe.returned.cols]
              IN IF probe.images[i] = "img"
                 THEN probe.canvas[cell] = [image |-> i]
                 ELSE probe.images[i] = "null" /\ probe.canvas[cell] = "blank"

\* the atlas resolved although the first load to finish was a failure and a
\* later url loaded before an earlier one
C23_Witness ==
  /\ probe.kind = "load"
  /\ probe.state = "resolved"
  /\ probe.count >= 3
  /\ probe.images[probe.settled[1]] = "null"
  /\ probe.settled[2] > probe.settled[3]
  /\ probe.images[probe.settled[2]] = "img"
  /\ probe.images[probe.settled[3]] = "img"

\* ---------------------------------------------------------------- C25
\* C25: the sink stores a frame under (sequenceName, frameIndex) as the file
\* frame_<index padded with zeros to at least 4 digits>.png in the directory
\* of the sequence; index 0 is accepted like any other index; distinct indices
\* of one sequence never share a file; the request answers 200 or a non-200
\* status, and the request of the exporter throws exactly when it is not 200.
PaddedIndex(digits) ==
  /\ Len(digits) >= 4
  /\ \A k \in 1..Len(digits) : digits[k] \in 0..9
  /\ Len(digits) > 4 => digits[1] # 0

RECURSIVE ValueOf(_)
ValueOf(digits) ==
  IF digits = << >> THEN 0
  ELSE 10 * ValueOf(SubSeq(digits, 1, Len(digits) - 1)) + digits[Len(digits)]

Uploaded == probe.kind = "sink" /\ probe.outcome # ""

C25_SinkStoresFrame ==
  Uploaded =>
    LET body == probe.req.body
        path == [dir |-> body.sequenceName, file |-> fileName(body.frameIndex.n)]
    IN /\ probe.outcome \in {"resolved", "rejected"}
       /\ probe.outcome = "resolved" <=> probe.status = 200
       /\ probe.status = 200 =>
            /\ [path |-> path, data |-> "QUJD"] \in probe.disk.files
            /\ path.file.prefix = "frame_" /\ path.file.ext = ".png"
            /\ PaddedIndex(path.file.digits)
            /\ ValueOf(path.file.digits) = body.frameIndex.n
            /\ \A f \in probe.before.files : f.path # path => f \in probe.disk.files
       /\ probe.status # 200 => probe.disk.files = probe.before.files
       /\ (probe.req.method = "POST" /\ probe.fault = "none") => probe.status = 200
       /\ \A f, g \in probe.disk.files : f.path = g.path => f = g
       /\ \A i, j \in SinkFrameIndices : i # j => fileName(i) # fileName(j)

\* frame 0 was stored next to another frame of the same sequence
C25_Witness ==
  /\ Uploaded
  /\ probe.status = 200
  /\ probe.req.body.frameIndex.n = 0
  /\ \E f \in probe.before.files :
       f.path.dir = probe.req.body.sequenceName /\ f.path.file # fileName(0)
  /\ Cardinality({ f \in probe.disk.files : f.path.dir = probe.req.body.sequenceName }) >= 2

\* a request that failed on the server made the request of the exporter throw
C25_WitnessFailure ==
  Uploaded /\ probe.status = 500 /\ probe.outcome = "rejected"

\* ---------------------------------------------------------------- C26
\* C26: a layout morph runs from the captured position to the target.  When
\* the layout changes at a timeline time t0 > 0 the interpolation start of
\* every instance is set to its current (possibly mid-morph) unit position,
\* so the first tick after the change yields the same positions as before it;
\* on every tick with time >= t0 + TRANSITION_DURATION every live instance's
\* unit position equals the target of the new layout and its world position
\* equals target * live spacing.
LiveElements == 0..(count(probe.N) * 3 - 1)

ChangedLayout ==
  /\ probe.kind = "updater"
  /\ probe.last.op = "render" /\ probe.last.moved
  /\ probe.layoutStartTime > 0

C26_StartIsCurrentPosition ==
  ChangedLayout =>
    /\ probe.layoutStartTime = probe.time
    /\ probe.startPositions = probe.last.shown
    /\ probe.currentPositions = probe.last.shown

C26_FirstTickKeepsPositions ==
  (ChangedLayout /\ probe'.last.op = "tick" /\ probe'.last.ran) =>
    /\ probe'.last.at = probe.layoutStartTime
    /\ \A e \in LiveElements : probe'.currentPositions[e] = probe.currentPositions[e]

C26_MorphEndsAtTarget ==
  ( /\ Ticked /\ probe.last.ran
    /\ probe.last.at >= probe.layoutStartTime + TRANSITION_DURATION(probe) ) =>
    \A i \in 0..(count(probe.N) - 1) : \A a \in 1..3 :
      LET target == TargetArray(probe.layout, probe.N)[i * 3 + a - 1]
      IN /\ probe.currentPositions[i * 3 + a - 1] = target
         /\ probe.instanceMatrix[i * 16 + 11 + a] = WorldCoordinate(target, probe.spacing)

C26_WitnessFirstTick ==
  /\ Ticked /\ probe.last.ran
  /\ probe.layoutStartTime > 0
  /\ probe.last.at = probe.layoutStartTime
  /\ \E e \in LiveElements :
       /\ probe.currentPositions[e] = probe.startPositions[e]
       /\ \E s \in Shapes : probe.startPositions[e][s] \notin {0, Scale}

\* ---------------------------------------------------------------- C27
\* C27: at any moment at most one frame-processing chain of the exporter is
\* active, also when stopRecording is followed by startRecording while a frame
\* of the earlier run is still in flight: the continuation left over never
\* resumes, so in the new run no frame index is persisted twice or skipped
\* and no frame of the earlier run is stored under the new sequence name.
ActiveChains == { c \in Chains : Live(c) }

C27_AtMostOneChain ==
  /\ Cardinality(ActiveChains) <= 1
  /\ \A k \in 1..Len(sink.saved) : sink.saved[k] = k - 1
  /\ \A k \in 1..Len(sink.requests) : sink.requests[k] = k - 1

\* without a continuation left over from an earlier run the chain is alone
C27_AloneWithoutLeftover ==
  ~hist.overlap => C27_AtMostOneChain

\* ---------------------------------------------------------------- C28
\* C28: the exporter invokes onStart exactly once per accepted startRecording
\* and onStop exactly once per export run, whichever way the run ends (all
\* frames persisted, a capture or persistence failure, a manual stop), also
\* when a failure of the frame in flight arrives after a manual stop; a
\* startRecording call without a canvas changes no state and invokes neither
\* callback.
RunOver == hist.runs > 0 /\ ~recorder.isRecordingRef

C28_OnStartOncePerStart == hist.onStart = hist.runs

C28_OnStopOncePerRun ==
  /\ RunOver => hist.onStop = 1
  /\ ~RunOver => hist.onStop = 0

C28_NoCanvasNoChange ==
  ~page.canvasCreated =>
    /\ recorder = InitWorld(config.targetScreen).recorder
    /\ chains = InitWorld(config.targetScreen).chains
    /\ hist.onStart = 0 /\ hist.onStop = 0

C28_CallbacksOncePerRun ==
  /\ C28_OnStartOncePerStart
  /\ C28_OnStopOncePerRun
  /\ C28_NoCanvasNoChange

\* with a single chain, onStop is called once unless a failure arrives after
\* the run was stopped
C28_OnStopOnceWithoutLateFailure ==
  (~hist.overlap /\ ~(hist.aborted /\ hist.endReason = "stopped")) => C28_OnStopOncePerRun

\* startRecording was called before the canvas existed
C28_WitnessNoCanvas ==
  ~page.canvasCreated /\ console = "No canvas provided" /\ hist.userActions > 0

\* ---------------------------------------------------------------- C29
\* C29: the throttling of config updates (every 15th controller tick) never
\* delays a discrete change: on the first tick on which the controller
\* computes a layout or N different from the last published one, the new
\* layout and N are published on that same tick, while spacing and cube size
\* are written to the shared animation ref on every playing tick, whatever
\* the throttle counter holds.  (A playing tick is one that computes: a tick
\* at or after the end of the timeline returns before it does.)
ComputedAt(t) == ControllerOut(config.targetScreen, Keyframes(World), t)

C29_TickPublishesDiscreteChange ==
  ctl'.frameCount # ctl.frameCount =>
    LET changed == hist'.tick.layout # ctl.lastLayout \/ hist'.tick.N # ctl.lastN
    IN /\ hist'.tick.playing /\ ~hist'.tick.clamped
       /\ hist'.tick.layout = ComputedAt(hist'.tick.time).layout
       /\ hist'.tick.N = ComputedAt(hist'.tick.time).N
       /\ changed => hist'.tick.published
       /\ hist'.tick.published <=> (changed \/ ctl.frameCount % ThrottlePeriod = 0)
       /\ hist'.tick.published =>
            /\ config'.layout = hist'.tick.layout /\ config'.N = hist'.tick.N
       /\ ctl'.lastLayout = hist'.tick.layout /\ ctl'.lastN = hist'.tick.N
       /\ (page'.isAnimating \/ recorder'.isRecording) =>
            animationConfigRef' =
              [spacing |-> ComputedAt(hist'.tick.time).spacing,
               cubeSize |-> ComputedAt(hist'.tick.time).cubeSize]

C29_WitnessRefOnly ==
  /\ hist.tick.playing /\ ~hist.tick.clamped
  /\ ~hist.tick.published
  /\ animationConfigRef.spacing = ComputedAt(hist.tick.time).spacing
  /\ animationConfigRef.spacing # config.spacing

\* ---------------------------------------------------------------- C30
\* C30: in the Rubik's-cube view, after the initial scramble the solver
\* dequeues one move at a time and, once the queue is empty and isSolving has
\* turned false, every cube is back in its initial grid cell (lx, ly, lz):
\* the solve queue is the scramble's moves in reverse order with inverted
\* direction, each layer move permutes the grid cells of its layer only, and
\* at no step do two cubes occupy the same cell.
Rubik == probe.kind = "rubik"

NoSharedCell(cubes) ==
  Cardinality({ cubes[i] : i \in DOMAIN cubes }) = Cardinality(DOMAIN cubes)

PermutesItsLayer(cubes, move) ==
  LET after == applyMoveInstant(cubes, move)
  IN /\ NoSharedCell(after)
     /\ \A i \in DOMAIN cubes :
          /\ ~inLayer(cubes[i], move) => after[i] = cubes[i]
          /\ inLayer(cubes[i], move) => inLayer(after[i], move)
          /\ \A a \in 1..3 : after[i][a] \in RubikCells

C30_SolverRestoresGrid ==
  Rubik =>
    /\ NoSharedCell(probe.cubes)
    /\ \A move \in Moves : PermutesItsLayer(probe.cubes, move)
    /\ Len(probe.scrambled) = Len(probe.dequeued) + Len(probe.moveQueue)
    /\ \A k \in 1..Len(probe.scrambled) :
         LET undone == probe.scrambled[Len(probe.scrambled) + 1 - k]
             queued == (probe.dequeued \o probe.moveQueue)[k]
         IN queued = [axis |-> undone.axis, index |-> undone.index, dir |-> -undone.dir]
    /\ (~probe.isSolving /\ probe.moveQueue = << >>) =>
         /\ probe.currentMove = NoMove
         /\ probe.cubes = getInitialCubes

C30_OneMoveAtATime ==
  (Rubik /\ Len(probe'.dequeued) # Len(probe.dequeued)) =>
    /\ Len(probe'.dequeued) = Len(probe.dequeued) + 1
    /\ probe.currentMove = NoMove
    /\ probe'.moveQueue = Tail(probe.moveQueue)

C30_SolverRestoresInitialCells ==
  [](C30_SolverRestoresGrid) /\ [][C30_OneMoveAtATime]_vars

\* a scramble of two moves that do not commute was solved
C30_Witness ==
  /\ Rubik
  /\ probe.solved /\ ~probe.isSolving
  /\ probe.moveQueue = << >>
  /\ Len(probe.dequeued) = ScrambleMoves
  /\ applyMoves(getInitialCubes, probe.scrambled) # getInitialCubes
  /\ applyMoves(getInitialCubes, probe.scrambled)
       # applyMoves(getInitialCubes, reverseOnly(probe.scrambled))
  /\ probe.cubes = getInitialCubes

====
